---- MODULE Spec2Model ----
(***************************************************************************)
(* Transcriber: the asynchronous task lifecycle of the repository.         *)
(*                                                                         *)
(* Three programs live in the repository and each is modelled here:        *)
(*   - the FastAPI transcription service (main.py, storage.py,             *)
(*     transcription_service.py, models.py): specification Spec;           *)
(*   - the Flask audio-extraction app (app.py): specification AppSpec;     *)
(*   - the FileManager artifact store (file_manager.py, utils.py):         *)
(*     specification FMSpec.                                               *)
(* The programs share no state, so each specification leaves the other     *)
(* programs' variables unchanged.                                          *)
(***************************************************************************)
EXTENDS Integers, Sequences, FiniteSets, TLC

\* ------------------------------------------------------------------ bounds
\* Number of submissions the service accepts in a run (ids 1..MaxTasks).
MaxTasks == 2
\* The clock runs 0..MaxTime (datetime.now / time.time, in retention units).
MaxTime == 2
\* Number of uploads the Flask app accepts in a run.
MaxUploads == 2
\* uploads in the runs of the cleanup thread against a delete and an insert
MaxRaceUploads == 3
\* Number of download requests (GET /audio/<task_id>) in a run.
MaxReq == 2
\* Number of register_file calls in a run (file ids 1..MaxFiles).
MaxFiles == 2
\* Number of POST /transcribe requests in a run.
MaxPosts == 2

\* FileManager(max_file_age=3600): one clock unit
MAX_FILE_AGE == 1

\* app.py cleanup_old_files: "> 3600", one clock unit
APP_MAX_AGE == 1

\* settings.RATE_LIMIT_REQUESTS: @limiter.limit("<n>/minute")
RATE_LIMIT_REQUESTS == 1

\* settings.CLEANUP_INTERVAL_HOURS, the retention window of storage.py, in
\* clock units.
CLEANUP_INTERVAL_HOURS == 1

\* Optional[...] = None of models.TranscriptionResult
NoneV == "None"
\* completed_at: Optional[datetime] = None
NoTime == -1

TaskIds == 1..MaxTasks
AppTaskIds == 1..MaxRaceUploads
ReqIds == 1..MaxReq
FileIds == 1..MaxFiles
PostIds == 1..MaxPosts
\* the remote addresses the limiter keys on (get_remote_address)
ApiClients == {1, 2}
\* the file paths handed to register_file
Paths == {1, 2}
\* extract_audio returns None in the place of the audio path
NoPath == 0
\* thread 0 is the FileManager's cleanup_worker thread
CleanupThread == 0
\* the threads that call into the FileManager besides thread 0
Clients == {1}
FMThreads == {CleanupThread} \cup Clients
\* _lock is free
NoThread == -1

\* models.TranscriptionStatus
PENDING == "pending"
PROCESSING == "processing"
COMPLETED == "completed"
FAILED == "failed"
TranscriptionStatus == {PENDING, PROCESSING, COMPLETED, FAILED}

VARIABLES
    \* ---- FastAPI service -------------------------------------------------
    storage,        \* InMemoryStorage._storage: id -> TranscriptionResult
    next_id,        \* InMemoryStorage._next_id
    cleanup_task,   \* InMemoryStorage._cleanup_task is not None
    now,            \* the wall clock
    ready,          \* event loop's FIFO of created, not yet started tasks
    pc,             \* position of the transcribe_video coroutine of each id
    model,          \* TranscriptionService._model is not None
    model_loading,  \* TranscriptionService._model_loading
    video_tmp,      \* ids whose temporary video file is on disk
    audio_tmp,      \* ids whose temporary audio file is on disk
    loop_live,      \* number of _cleanup_loop tasks that have not ended
    loop_cancel,    \* a cancel() of the task in _cleanup_task is pending
    stop_pc,        \* position of the stop_cleanup_task call in progress
    \* ---- Flask app (app.py) ----------------------------------------------
    processing_status,  \* app.processing_status: task id -> task info
    app_next,       \* number of task ids (uuid4) handed out so far
    app_pc,         \* position of each process_video_async thread
    video_file,     \* task ids whose uploaded video is in uploads/
    audio_file,     \* task ids whose extracted audio is in audio_output/
    req,            \* the download requests: task, position, what it read
    remover,        \* position of the remove_files thread of each request
    uploads,        \* the responses of the POST /upload requests so far
    video_ctime,    \* os.path.getctime of each file in uploads/
    audio_ctime,    \* os.path.getctime of each file in audio_output/
    sweep,          \* the cleanup_old_files thread: position and locals
    status_req,     \* the GET /status request in progress: task, position
    \* ---- FileManager (file_manager.py) ------------------------------------
    file_map,       \* FileManager._file_map: file id -> {path, timestamp}
    fm_next,        \* number of file ids (uuid4) generated so far
    fm_lock,        \* FileManager._lock: the thread holding it, or NoThread
    fm_thr,         \* the call each thread is in and its position
    disk,           \* paths of the files that exist on disk
    written,        \* paths that were ever written (a path is written once)
    deleted,        \* per id whose record delete_file removed: path, result
    stop_cleanup,   \* FileManager._stop_cleanup is set
    \* ---- POST /transcribe (main.py) --------------------------------------
    hits,           \* limiter: requests counted per client in this window
    posts,          \* the POST /transcribe requests: client, file, position
    \* ---- direct callers of InMemoryStorage and FileManager ---------------
    call            \* the last call made: operation, argument, return value

loopVars == <<loop_live, loop_cancel, stop_pc>>

svcVars == <<storage, next_id, cleanup_task, now, ready, pc, model,
             model_loading, video_tmp, audio_tmp, loopVars>>

appVars == <<processing_status, app_next, app_pc, video_file, audio_file,
             req, remover, uploads, video_ctime, audio_ctime, sweep,
             status_req>>

fmVars ==
    <<file_map, fm_next, fm_lock, fm_thr, disk, written, deleted,
      stop_cleanup>>

apiVars == <<hits, posts, call>>

vars == <<svcVars, appVars, fmVars, apiVars>>

\* ------------------------------------------------------------ storage.py
EmptyMap == [x \in {} |-> NoneV]

\* dict assignment d[k] = v
Put(d, k, v) == [x \in DOMAIN d \cup {k} |-> IF x = k THEN v ELSE d[x]]

\* del d[k]
Del(d, k) == [x \in DOMAIN d \ {k} |-> d[x]]

\* TranscriptionResult(id, status=PENDING, language, created_at=now)
NewResult(t) ==
    [status |-> PENDING, text |-> NoneV, error_message |-> NoneV,
     created_at |-> t, completed_at |-> NoTime]

\* mutant of update_transcription: an absent id is inserted
update_transcription_Upserts(s, id, kwargs) ==
    LET old == IF id \in DOMAIN s THEN s[id] ELSE NewResult(0)
    IN  Put(s, id, [f \in DOMAIN old |->
                      IF f \in DOMAIN kwargs THEN kwargs[f] ELSE old[f]])

\* InMemoryStorage.update_transcription(id, **kwargs): False and no change
\* when the id is absent, otherwise setattr of every given field.
update_transcription(s, id, kwargs) ==
    IF id \notin DOMAIN s THEN s
    ELSE [s EXCEPT ![id] =
            [f \in DOMAIN s[id] |->
                IF f \in DOMAIN kwargs THEN kwargs[f] ELSE s[id][f]]]

\* InMemoryStorage.update_transcription: its return value
update_transcription_ret(s, id) == id \in DOMAIN s

\* InMemoryStorage.get_transcription: self._storage.get(id)
get_transcription(s, id) ==
    IF id \in DOMAIN s THEN [found |-> TRUE, result |-> s[id]]
    ELSE [found |-> FALSE, result |-> NoneV]

\* InMemoryStorage.delete_transcription: its return value
delete_transcription_ret(s, id) == id \in DOMAIN s

\* mutant of delete_transcription: only a finished task is removed
delete_transcription_OnlyTerminal(s, id) ==
    IF id \in DOMAIN s /\ s[id].status \in {COMPLETED, FAILED}
      THEN Del(s, id) ELSE s

\* InMemoryStorage.delete_transcription
delete_transcription(s, id) == IF id \in DOMAIN s THEN Del(s, id) ELSE s

\* InMemoryStorage._cleanup_old_transcriptions: the ids marked for deletion
to_delete(s, t) ==
    {id \in DOMAIN s : s[id].created_at < t - CLEANUP_INTERVAL_HOURS}

\* a thread that is in no FileManager call; the cleanup_worker thread is in
\* _stop_cleanup.wait(cleanup_interval)
IdleThread ==
    [pc |-> "idle", op |-> "none", id |-> 0, path |-> 0, time |-> 0,
     pending |-> <<>>]

\* a download request that has not been issued
NoRequest ==
    [task |-> 0, pc |-> "none", saw_status |-> NoneV, saw_audio |-> FALSE,
     after_served |-> FALSE]

\* no GET /status request has been made
NoStatusRequest == [task |-> 0, pc |-> "none", status |-> NoneV]

\* a POST /transcribe request that has not been issued
NoPost == [client |-> 0, kind |-> "none", pc |-> "none", id |-> 0]

\* no call has been made yet; n alternates with every call
NoCall ==
    [n |-> 0, op |-> "none", id |-> 0, arg |-> "none", ret |-> FALSE]

\* the cleanup_old_files thread in time.sleep(300)
SweepAsleep ==
    [pc |-> "sleeping", time |-> 0, used |-> 0, keys |-> {}, pos |-> 0,
     expired |-> {}]

Init ==
    /\ storage = EmptyMap
    /\ next_id = 1
    /\ cleanup_task = FALSE
    /\ now = 0
    /\ ready = <<>>
    /\ pc = [t \in TaskIds |-> "none"]
    /\ model = FALSE
    /\ model_loading = FALSE
    /\ video_tmp = {}
    /\ audio_tmp = {}
    /\ loop_live = 0
    /\ loop_cancel = FALSE
    /\ stop_pc = "none"
    /\ processing_status = EmptyMap
    /\ app_next = 1
    /\ app_pc = [t \in AppTaskIds |-> "none"]
    /\ video_file = {}
    /\ audio_file = {}
    /\ req = [r \in ReqIds |-> NoRequest]
    /\ remover = [r \in ReqIds |-> "none"]
    /\ status_req = NoStatusRequest
    /\ uploads = <<>>
    /\ video_ctime = [t \in AppTaskIds |-> 0]
    /\ audio_ctime = [t \in AppTaskIds |-> 0]
    /\ sweep = SweepAsleep
    /\ file_map = EmptyMap
    /\ fm_next = 1
    /\ fm_lock = NoThread
    /\ fm_thr = [i \in FMThreads |-> IdleThread]
    /\ stop_cleanup = FALSE
    /\ disk = {}
    /\ written = {}
    /\ deleted = EmptyMap
    /\ hits = [c \in ApiClients |-> 0]
    /\ posts = [r \in PostIds |-> NoPost]
    /\ call = NoCall

\* mutant of create_transcription: the id is derived from the number of
\* stored records, so the id of a removed record is handed out again
create_transcription_ReusesId(s, n, t) ==
    LET id == Cardinality(DOMAIN s) + 1
    IN  [id |-> id, storage |-> Put(s, id, NewResult(t)), next_id |-> n + 1]

\* InMemoryStorage.create_transcription: the id it returns, the storage and
\* the counter it leaves.
create_transcription(s, n, t) ==
    [id |-> n, storage |-> Put(s, n, NewResult(t)), next_id |-> n + 1]

\* for transcription_id in to_delete: self.delete_transcription(id)
RECURSIVE DeleteAll(_, _)
DeleteAll(s, ids) ==
    IF ids = {} THEN s
    ELSE LET id == CHOOSE x \in ids : TRUE
         IN  DeleteAll(delete_transcription(s, id), ids \ {id})

\* InMemoryStorage._cleanup_old_transcriptions
cleanup_old_transcriptions(s, t) == DeleteAll(s, to_delete(s, t))

\* what a call of start_cleanup_task or stop_cleanup_task leaves alone
cleanupTaskRest ==
    <<storage, next_id, now, ready, pc, model, model_loading, video_tmp,
      audio_tmp, hits, posts>>

\* mutant of start_cleanup_task: the handle is not looked at
start_cleanup_task_AlwaysCreates(handle, live) ==
    [handle |-> TRUE, live |-> live + 1]

\* InMemoryStorage.start_cleanup_task: the handle and the number of loop
\* tasks it leaves; asyncio.create_task only when the handle is None
start_cleanup_task(handle, live) ==
    [handle |-> TRUE, live |-> IF handle THEN live ELSE live + 1]

\* await storage.start_cleanup_task(); the call has no await inside.  Calls
\* are made one after another: none starts while a stop_cleanup_task awaits.
CallStartCleanup ==
    /\ stop_pc = "none"
    /\ LET r == start_cleanup_task(cleanup_task, loop_live)
       IN  /\ cleanup_task' = r.handle
           /\ loop_live' = r.live
    /\ call' = [n |-> 1 - call.n, op |-> "start_cleanup_task", id |-> 0,
                arg |-> "none", ret |-> ~cleanup_task]
    /\ UNCHANGED <<loop_cancel, stop_pc>>
    /\ UNCHANGED cleanupTaskRest
    /\ UNCHANGED <<appVars, fmVars>>

\* stop_cleanup_task, lines 32-36: with a handle, cancel() and the await of
\* the task; without one, only a log line
CallStopCleanup ==
    /\ stop_pc = "none"
    /\ IF cleanup_task
         THEN /\ loop_cancel' = TRUE
              /\ stop_pc' = "awaiting"
         ELSE UNCHANGED <<loop_cancel, stop_pc>>
    /\ call' = [n |-> 1 - call.n, op |-> "stop_cleanup_task", id |-> 0,
                arg |-> "none", ret |-> cleanup_task]
    /\ UNCHANGED <<cleanup_task, loop_live>>
    /\ UNCHANGED cleanupTaskRest
    /\ UNCHANGED <<appVars, fmVars>>

\* _cleanup_loop, lines 126-128: CancelledError is raised at the await of
\* the loop, caught, and the loop breaks: the task ends
LoopCancelled ==
    /\ loop_cancel
    /\ loop_cancel' = FALSE
    /\ loop_live' = loop_live - 1
    /\ UNCHANGED <<cleanup_task, stop_pc, call>>
    /\ UNCHANGED cleanupTaskRest
    /\ UNCHANGED <<appVars, fmVars>>

\* stop_cleanup_task, lines 37-41: the awaited task has ended; the handle is
\* reset
StopResume ==
    /\ stop_pc = "awaiting"
    /\ ~loop_cancel
    /\ cleanup_task' = FALSE
    /\ stop_pc' = "none"
    /\ UNCHANGED <<loop_live, loop_cancel, call>>
    /\ UNCHANGED cleanupTaskRest
    /\ UNCHANGED <<appVars, fmVars>>

\* ---------------------------------------------- transcription_service.py
\* mutant of RecordFailure: the failure is written on every record
RecordFailure_OnEveryRecord(s, id, t) ==
    [x \in DOMAIN s |->
        [s[x] EXCEPT !.status = FAILED, !.error_message = "error",
                     !.completed_at = t]]

\* mutant of RecordFailure: the except branch records nothing
RecordFailure_Dropped(s, id, t) == s

\* the except branch of transcribe_video: status FAILED with the message
\* and completed_at
RecordFailure(s, id, t) ==
    update_transcription(s, id,
        [status |-> FAILED, error_message |-> "error", completed_at |-> t])

\* mutant of RecordSuccess: completed_at is not passed
RecordSuccess_NoCompletedAt(s, id, t) ==
    update_transcription(s, id, [status |-> COMPLETED, text |-> "text"])

\* the success update of transcribe_video: status COMPLETED with the text
RecordSuccess(s, id, t) ==
    update_transcription(s, id,
        [status |-> COMPLETED, text |-> "text", completed_at |-> t])

\* the first update of transcribe_video
RecordProcessing(s, id) ==
    update_transcription(s, id, [status |-> PROCESSING])

\* A coroutine runs on the event loop without interruption between two
\* awaits: while transcribe_video is between its success update and the end
\* of its except branch, no other coroutine or request handler runs.
LoopBusy == \E t \in TaskIds : pc[t] \in {"finally_ok", "finally_exc"}

\* InMemoryStorage.start_cleanup_task (startup event)
StartCleanupTask ==
    /\ ~LoopBusy
    /\ ~cleanup_task
    /\ cleanup_task' = TRUE
    /\ loop_live' = loop_live + 1
    /\ UNCHANGED <<storage, next_id, now, ready, pc, model, model_loading,
                   video_tmp, audio_tmp, loop_cancel, stop_pc>>
    /\ UNCHANGED <<appVars, fmVars, apiVars>>

\* InMemoryStorage.stop_cleanup_task (shutdown event), with the end of the
\* cancelled loop: nothing else runs while the call awaits the task
StopCleanupTask ==
    /\ ~LoopBusy
    /\ cleanup_task
    /\ stop_pc = "none"
    /\ cleanup_task' = FALSE
    /\ loop_live' = loop_live - 1
    /\ UNCHANGED <<storage, next_id, now, ready, pc, model, model_loading,
                   video_tmp, audio_tmp, loop_cancel, stop_pc>>
    /\ UNCHANGED <<appVars, fmVars, apiVars>>

\* _cleanup_loop: one sweep after a sleep, while the cleanup task runs
CleanupSweep ==
    /\ ~LoopBusy
    /\ cleanup_task
    /\ ~loop_cancel
    /\ storage' = cleanup_old_transcriptions(storage, now)
    /\ UNCHANGED <<next_id, cleanup_task, now, ready, pc, model,
                   model_loading, video_tmp, audio_tmp>>
    /\ UNCHANGED <<appVars, fmVars, apiVars, loopVars>>

\* the clock advances
Tick ==
    /\ now < MaxTime
    /\ now' = now + 1
    /\ UNCHANGED <<storage, next_id, cleanup_task, ready, pc, model,
                   model_loading, video_tmp, audio_tmp>>
    /\ UNCHANGED <<appVars, fmVars, apiVars, loopVars>>

\* POST /transcribe with a valid file: create_transcription, then
\* asyncio.create_task(transcribe_video(...)) with no await in between
Submit ==
    /\ ~LoopBusy
    /\ next_id <= MaxTasks
    /\ LET c == create_transcription(storage, next_id, now)
       IN  /\ storage' = c.storage
           /\ next_id' = c.next_id
           /\ ready' = Append(ready, c.id)
           /\ pc' = [pc EXCEPT ![c.id] = "ready"]
    /\ UNCHANGED <<cleanup_task, now, model, model_loading, video_tmp,
                   audio_tmp>>
    /\ UNCHANGED <<appVars, fmVars, apiVars, loopVars>>

\* mutant of NextToStart: the task created last starts first
NextToStart_Lifo(q) == q[Len(q)]

\* The event loop runs callbacks in the order they were scheduled: the task
\* that starts next is the one created first.
NextToStart(q) == Head(q)

\* mutant of run_once: a started task stays scheduled
run_once_StaysScheduled(q, t) == q

\* asyncio.create_task schedules the coroutine once: when the event loop
\* starts it, it leaves the queue of tasks to start, and nothing in
\* transcribe_video or its caller schedules it again
run_once(q, t) == SelectSeq(q, LAMBDA x : x # t)

\* _extract_audio up to its await: the temporary video file is written and
\* ffmpeg is handed to the executor
BeginExtract(t) ==
    /\ video_tmp' = video_tmp \cup {t}
    /\ pc' = [pc EXCEPT ![t] = "extracting"]

\* mutant of load_model_branch: a load in flight is not looked at
load_model_branch_IgnoresFlag(m, loading) ==
    IF m THEN "loaded" ELSE "load"

\* _load_model, lines 28-40: return when the model is there, wait when a load
\* is in flight, else load it
load_model_branch(m, loading) ==
    IF m THEN "loaded" ELSE IF loading THEN "wait" ELSE "load"

\* transcribe_video up to its first suspension: status PROCESSING, then
\* _load_model, which returns at once when the model is loaded
Start(t) ==
    /\ ~LoopBusy
    /\ ready # <<>>
    /\ t = NextToStart(ready)
    /\ ready' = run_once(ready, t)
    /\ storage' = RecordProcessing(storage, t)
    /\ CASE load_model_branch(model, model_loading) = "loaded" ->
              BeginExtract(t) /\ UNCHANGED model_loading
         []  load_model_branch(model, model_loading) = "wait" ->
              /\ pc' = [pc EXCEPT ![t] = "load_wait"]
              /\ UNCHANGED <<model_loading, video_tmp>>
         []  load_model_branch(model, model_loading) = "load" ->
              /\ model_loading' = TRUE
              /\ pc' = [pc EXCEPT ![t] = "loading"]
              /\ UNCHANGED video_tmp
    /\ UNCHANGED <<next_id, cleanup_task, now, model, audio_tmp>>
    /\ UNCHANGED <<appVars, fmVars, apiVars, loopVars>>

\* _load_model: whisper.load_model returns or raises in the executor; the
\* finally resets _model_loading; a raise reaches the except of
\* transcribe_video
LoadDone(t) ==
    /\ ~LoopBusy
    /\ pc[t] = "loading"
    /\ model_loading' = FALSE
    /\ \E ok \in BOOLEAN :
         IF ok
           THEN /\ model' = TRUE
                /\ BeginExtract(t)
                /\ UNCHANGED storage
           ELSE /\ storage' = RecordFailure(storage, t, now)
                /\ pc' = [pc EXCEPT ![t] = "done"]
                /\ UNCHANGED <<model, video_tmp>>
    /\ UNCHANGED <<next_id, cleanup_task, now, ready, audio_tmp>>
    /\ UNCHANGED <<appVars, fmVars, apiVars, loopVars>>

\* _load_model: a caller that found a load in flight leaves its sleep loop
\* once _model_loading is False, whether or not the load succeeded
LoadWait(t) ==
    /\ ~LoopBusy
    /\ pc[t] = "load_wait"
    /\ ~model_loading
    /\ BeginExtract(t)
    /\ UNCHANGED <<storage, next_id, cleanup_task, now, ready, model,
                   model_loading, audio_tmp>>
    /\ UNCHANGED <<appVars, fmVars, apiVars, loopVars>>

\* _extract_audio after ffmpeg: the output check, the finally that unlinks
\* the video file (os.unlink may raise), then _transcribe_audio up to its
\* await.  ffmpeg may also never return: run_in_executor has no timeout.
ExtractDone(t) ==
    /\ ~LoopBusy
    /\ pc[t] = "extracting"
    /\ \E out \in {"ok", "no_output", "error", "hang"},
          partial \in BOOLEAN, unlink_ok \in BOOLEAN :
         IF out = "hang"
           THEN /\ ~partial /\ unlink_ok
                /\ pc' = [pc EXCEPT ![t] = "hung"]
                /\ UNCHANGED <<storage, video_tmp, audio_tmp>>
           ELSE /\ (out = "no_output" => ~partial)
                /\ (out = "ok" => partial)
                /\ audio_tmp' = IF partial THEN audio_tmp \cup {t}
                                ELSE audio_tmp
                /\ video_tmp' = IF unlink_ok THEN video_tmp \ {t}
                                ELSE video_tmp
                /\ IF out = "ok" /\ unlink_ok
                     THEN /\ pc' = [pc EXCEPT ![t] = "transcribing"]
                          /\ UNCHANGED storage
                     ELSE /\ storage' = RecordFailure(storage, t, now)
                          /\ pc' = [pc EXCEPT ![t] = "done"]
    /\ UNCHANGED <<next_id, cleanup_task, now, ready, model, model_loading>>
    /\ UNCHANGED <<appVars, fmVars, apiVars, loopVars>>

\* transcribe_video after whisper returns or raises: on a return, the
\* success update (status COMPLETED with the text).  The coroutine goes on
\* into the finally without an await.  Whisper may also never return:
\* run_in_executor has no timeout.
TranscribeDone(t) ==
    /\ pc[t] = "transcribing"
    /\ ~LoopBusy
    /\ \E out \in {"ok", "error", "hang"} :
         CASE out = "hang" ->
                /\ model
                /\ pc' = [pc EXCEPT ![t] = "hung"]
                /\ UNCHANGED storage
           [] out = "ok" ->
                /\ model
                /\ storage' = RecordSuccess(storage, t, now)
                /\ pc' = [pc EXCEPT ![t] = "finally_ok"]
           [] out = "error" ->
                /\ pc' = [pc EXCEPT ![t] = "finally_exc"]
                /\ UNCHANGED storage
    /\ UNCHANGED <<next_id, cleanup_task, now, ready, model, model_loading,
                   video_tmp, audio_tmp>>
    /\ UNCHANGED <<appVars, fmVars, apiVars, loopVars>>

\* the finally of transcribe_video, which unlinks the audio file (os.unlink
\* may raise), and the except branch, which catches whatever was raised in
\* the try, the finally's own exception included
FinallyAudio(t) ==
    /\ pc[t] \in {"finally_ok", "finally_exc"}
    /\ \E unlink_ok \in BOOLEAN :
         /\ audio_tmp' = IF unlink_ok THEN audio_tmp \ {t} ELSE audio_tmp
         /\ storage' = IF pc[t] = "finally_ok" /\ unlink_ok
                         THEN storage
                         ELSE RecordFailure(storage, t, now)
    /\ pc' = [pc EXCEPT ![t] = "done"]
    /\ UNCHANGED <<next_id, cleanup_task, now, ready, model, model_loading,
                   video_tmp>>
    /\ UNCHANGED <<appVars, fmVars, apiVars, loopVars>>

\* one step of the transcribe_video coroutine of task t
WorkerStep(t) ==
    \/ Start(t)
    \/ LoadDone(t)
    \/ LoadWait(t)
    \/ ExtractDone(t)
    \/ TranscribeDone(t)
    \/ FinallyAudio(t)

Next ==
    \/ StartCleanupTask
    \/ StopCleanupTask
    \/ CleanupSweep
    \/ Tick
    \/ Submit
    \/ \E t \in TaskIds : WorkerStep(t)

Spec == Init /\ [][Next]_vars

\* The event loop runs every coroutine that is ready: a worker step that
\* stays enabled is eventually taken.
FairSpec == Spec /\ \A t \in TaskIds : WF_vars(WorkerStep(t))

\* ------------------------------------------------------------------ app.py
QUEUED == "queued"

\* processing_status[task_id] = {'status': 'queued', 'created_at': ...};
\* 'audio_path' and 'error' are keys the worker adds later
NewTaskInfo(t) ==
    [status |-> QUEUED, created_at |-> t, audio_path |-> FALSE,
     error |-> FALSE]

\* the kinds of POST /upload requests
UploadKinds == {"no_file", "no_name", "bad_ext", "too_large", "valid"}

\* upload_video, lines 132-143: the checks made before anything is saved
upload_rejected_early(kind) == kind \in {"no_file", "no_name", "bad_ext"}

\* the part of the app's state that the worker, the download requests and
\* the cleanup thread own
appRest == <<req, remover, sweep, audio_file, audio_ctime, status_req>>

\* mutant of oversize_cleanup: the saved file is not removed
oversize_cleanup_KeepsFile(vf, id, rm_ok) == vf \cup {id}

\* upload_video, lines 160-165: file.save(video_path), then a file over
\* MAX_FILE_SIZE is removed again; the file stays when os.remove raises
oversize_cleanup(vf, id, rm_ok) == IF rm_ok THEN vf ELSE vf \cup {id}

\* POST /upload: a request without a file, without a file name or with a
\* disallowed extension is answered 400 at once.  Otherwise a fresh uuid4 is
\* drawn and the video is saved under uploads/; a file over MAX_FILE_SIZE is
\* removed again and answered 400 (os.remove may raise: 500, the file
\* stays); else the task info is stored, the worker thread started and the
\* request answered 202.
upload_request(kinds, cap) ==
    /\ Len(uploads) < cap
    /\ \E kind \in kinds, rm_ok \in BOOLEAN :
         IF upload_rejected_early(kind)
           THEN /\ rm_ok
                /\ uploads' = Append(uploads, "400")
                /\ UNCHANGED <<processing_status, app_next, app_pc,
                               video_file, video_ctime>>
           ELSE /\ app_next' = app_next + 1
                /\ IF kind = "too_large"
                     THEN /\ uploads' = Append(uploads,
                                          IF rm_ok THEN "400" ELSE "500")
                          /\ video_file' =
                               oversize_cleanup(video_file, app_next, rm_ok)
                          /\ video_ctime' =
                               IF rm_ok THEN video_ctime
                               ELSE [video_ctime EXCEPT ![app_next] = now]
                          /\ UNCHANGED <<processing_status, app_pc>>
                     ELSE /\ rm_ok
                          /\ uploads' = Append(uploads, "202")
                          /\ processing_status' =
                               Put(processing_status, app_next,
                                   NewTaskInfo(now))
                          /\ video_file' = video_file \cup {app_next}
                          /\ video_ctime' =
                               [video_ctime EXCEPT ![app_next] = now]
                          /\ app_pc' = [app_pc EXCEPT ![app_next] = "start"]
    /\ UNCHANGED appRest
    /\ UNCHANGED <<svcVars, fmVars, apiVars>>

\* what a worker step leaves alone besides the variables it names
workerRest == <<app_next, req, remover, uploads, sweep, status_req>>

\* process_video_async, line 57: status 'processing'.  A missing key raises
\* KeyError, the except branch raises it again and the finally runs.
WorkerBegin(t) ==
    /\ app_pc[t] = "start"
    /\ IF t \in DOMAIN processing_status
         THEN /\ processing_status' =
                   [processing_status EXCEPT ![t].status = PROCESSING]
              /\ app_pc' = [app_pc EXCEPT ![t] = "extracting"]
         ELSE /\ app_pc' = [app_pc EXCEPT ![t] = "finally"]
              /\ UNCHANGED processing_status
    /\ UNCHANGED <<video_file, audio_file, video_ctime, audio_ctime>>
    /\ UNCHANGED workerRest
    /\ UNCHANGED <<svcVars, fmVars, apiVars>>

\* extract_audio_ffmpeg: ffmpeg ends with code 0, with an error, or is
\* stopped by the 300 s timeout; it returns (success, message) and never
\* raises.  A failed run may leave a partial output file.
extract_audio_ffmpeg(t) ==
    /\ app_pc[t] = "extracting"
    /\ \E success \in BOOLEAN, wrote \in BOOLEAN :
         /\ success => wrote
         /\ audio_file' = IF wrote THEN audio_file \cup {t} ELSE audio_file
         /\ audio_ctime' = IF wrote THEN [audio_ctime EXCEPT ![t] = now]
                           ELSE audio_ctime
         /\ app_pc' = [app_pc EXCEPT
                         ![t] = IF success THEN "got_ok" ELSE "got_fail"]
    /\ UNCHANGED <<processing_status, video_file, video_ctime>>
    /\ UNCHANGED workerRest
    /\ UNCHANGED <<svcVars, fmVars, apiVars>>

\* process_video_async, line 63 or 66: the status is written first
WorkerSetStatus(t) ==
    /\ app_pc[t] \in {"got_ok", "got_fail"}
    /\ IF t \in DOMAIN processing_status
         THEN /\ processing_status' =
                   [processing_status EXCEPT
                      ![t].status = IF app_pc[t] = "got_ok" THEN COMPLETED
                                    ELSE FAILED]
              /\ app_pc' = [app_pc EXCEPT
                              ![t] = IF app_pc[t] = "got_ok" THEN "set_ok"
                                     ELSE "set_fail"]
         ELSE /\ app_pc' = [app_pc EXCEPT ![t] = "finally"]
              /\ UNCHANGED processing_status
    /\ UNCHANGED <<video_file, audio_file, video_ctime, audio_ctime>>
    /\ UNCHANGED workerRest
    /\ UNCHANGED <<svcVars, fmVars, apiVars>>

\* process_video_async, line 64 or 67: then 'audio_path' or 'error'
WorkerSetResult(t) ==
    /\ app_pc[t] \in {"set_ok", "set_fail"}
    /\ IF t \in DOMAIN processing_status
         THEN processing_status' =
                IF app_pc[t] = "set_ok"
                  THEN [processing_status EXCEPT ![t].audio_path = TRUE]
                  ELSE [processing_status EXCEPT ![t].error = TRUE]
         ELSE UNCHANGED processing_status
    /\ app_pc' = [app_pc EXCEPT ![t] = "finally"]
    /\ UNCHANGED <<video_file, audio_file, video_ctime, audio_ctime>>
    /\ UNCHANGED workerRest
    /\ UNCHANGED <<svcVars, fmVars, apiVars>>

\* process_video_async, finally: the video file is removed; a failure of
\* os.remove is printed and swallowed
WorkerFinally(t) ==
    /\ app_pc[t] = "finally"
    /\ \E removed \in BOOLEAN :
         /\ t \notin video_file => removed
         /\ video_file' = IF removed THEN video_file \ {t} ELSE video_file
         /\ video_ctime' = IF removed THEN [video_ctime EXCEPT ![t] = 0]
                           ELSE video_ctime
    /\ app_pc' = [app_pc EXCEPT ![t] = "done"]
    /\ UNCHANGED <<processing_status, audio_file, audio_ctime>>
    /\ UNCHANGED workerRest
    /\ UNCHANGED <<svcVars, fmVars, apiVars>>

\* whether a download of task t has been answered with the file already
\* (send_file returned its response)
AlreadyServed(t) ==
    \E q \in ReqIds : req[q].task = t /\ req[q].pc \in {"streaming", "sent"}

\* the request slot a new request takes
FreshReq == CHOOSE r \in ReqIds : req[r].pc = "none" /\
                \A q \in ReqIds : q < r => req[q].pc # "none"

\* mutant of download_response: a task that is not completed is answered
\* like an unknown one
download_response_NotReadyIsNotFound(known, st, ap, on_disk) ==
    IF ~known \/ st # COMPLETED THEN "404_task_not_found"
    ELSE IF ~ap \/ ~on_disk THEN "404_audio_not_found"
    ELSE "checked"

\* download_audio, lines 215-228: 404 for an unknown task, 400 for a task
\* that is not completed, 404 when audio_path is unset or the file is not on
\* disk; otherwise the request goes on to send the file
download_response(known, st, ap, on_disk) ==
    IF ~known THEN "404_task_not_found"
    ELSE IF st # COMPLETED THEN "400_not_ready"
    ELSE IF ~ap \/ ~on_disk THEN "404_audio_not_found"
    ELSE "checked"

\* what a step of a download request or of its remove_files thread leaves
\* alone besides the variables it names
downloadRest ==
    <<app_next, app_pc, video_file, uploads, video_ctime, sweep, status_req>>

\* download_audio, lines 215-228: the lookup, the status check and the
\* audio_path / os.path.exists check
download_check(t) ==
    /\ \E r \in ReqIds : req[r].pc = "none"
    /\ LET r == FreshReq
           known == t \in DOMAIN processing_status
           st == IF known THEN processing_status[t].status ELSE NoneV
           ap == known /\ st = COMPLETED /\ processing_status[t].audio_path
       IN  req' = [req EXCEPT ![r] =
                     [task |-> t,
                      pc |-> download_response(known, st, ap,
                                               t \in audio_file),
                      saw_status |-> st,
                      saw_audio |-> ap,
                      after_served |-> AlreadyServed(t)]]
    /\ UNCHANGED <<processing_status, audio_file, audio_ctime, remover>>
    /\ UNCHANGED downloadRest
    /\ UNCHANGED <<svcVars, fmVars, apiVars>>

\* download_audio, lines 246-255: the remove_files thread is started, then
\* send_file opens the file and the response starts streaming it; a file
\* that is gone by now raises and the request ends 500
download_send(r) ==
    /\ req[r].pc = "checked"
    /\ remover' = [remover EXCEPT ![r] = "sleeping"]
    /\ req' = [req EXCEPT ![r].pc = IF req[r].task \in audio_file
                                      THEN "streaming"
                                      ELSE "500_download_failed"]
    /\ UNCHANGED <<processing_status, audio_file, audio_ctime>>
    /\ UNCHANGED downloadRest
    /\ UNCHANGED <<svcVars, fmVars, apiVars>>

\* the transfer of the response body to the caller ends
stream_finish(r) ==
    /\ req[r].pc = "streaming"
    /\ req' = [req EXCEPT ![r].pc = "sent"]
    /\ UNCHANGED <<processing_status, audio_file, audio_ctime, remover>>
    /\ UNCHANGED downloadRest
    /\ UNCHANGED <<svcVars, fmVars, apiVars>>

\* remove_files: time.sleep(1) is over; if os.path.exists(audio_path)
remove_files_check(r) ==
    /\ remover[r] = "sleeping"
    /\ remover' = [remover EXCEPT
                     ![r] = IF req[r].task \in audio_file THEN "removing"
                            ELSE "deleting"]
    /\ UNCHANGED <<processing_status, audio_file, audio_ctime, req>>
    /\ UNCHANGED downloadRest
    /\ UNCHANGED <<svcVars, fmVars, apiVars>>

\* remove_files: os.remove(audio_path); it raises when the file is gone
\* by now, and the except branch ends the thread
remove_files_remove(r) ==
    /\ remover[r] = "removing"
    /\ IF req[r].task \in audio_file
         THEN /\ audio_file' = audio_file \ {req[r].task}
              /\ audio_ctime' = [audio_ctime EXCEPT ![req[r].task] = 0]
              /\ remover' = [remover EXCEPT ![r] = "deleting"]
         ELSE /\ remover' = [remover EXCEPT ![r] = "done"]
              /\ UNCHANGED <<audio_file, audio_ctime>>
    /\ UNCHANGED <<processing_status, req>>
    /\ UNCHANGED downloadRest
    /\ UNCHANGED <<svcVars, fmVars, apiVars>>

\* remove_files: if task_id in processing_status: del
remove_files_del(r) ==
    /\ remover[r] = "deleting"
    /\ processing_status' =
         IF req[r].task \in DOMAIN processing_status
           THEN Del(processing_status, req[r].task)
           ELSE processing_status
    /\ remover' = [remover EXCEPT ![r] = "done"]
    /\ UNCHANGED <<audio_file, audio_ctime, req>>
    /\ UNCHANGED downloadRest
    /\ UNCHANGED <<svcVars, fmVars, apiVars>>

\* POST /upload with any of the request kinds
upload_video == upload_request(UploadKinds, MaxUploads)

\* mutant of task_expired: every task counts as expired
task_expired_Always(current_time, created_at) == TRUE

\* cleanup_old_files, line 90: current_time - created_at > 3600
task_expired(current_time, created_at) ==
    current_time - created_at > APP_MAX_AGE

\* what a step of the cleanup_old_files thread leaves alone besides the
\* variables it names
sweepRest == <<app_next, app_pc, req, remover, uploads, status_req>>

\* cleanup_old_files, lines 85-89: the thread wakes up, reads time.time()
\* and creates the iterator over processing_status.items(), which remembers
\* the size of the dict
sweep_begin ==
    /\ sweep.pc = "sleeping"
    /\ sweep' = [pc |-> "iter", time |-> now,
                 used |-> Cardinality(DOMAIN processing_status),
                 keys |-> DOMAIN processing_status,
                 pos |-> 0, expired |-> {}]
    /\ UNCHANGED <<processing_status, video_file, audio_file, video_ctime,
                   audio_ctime>>
    /\ UNCHANGED sweepRest
    /\ UNCHANGED <<svcVars, fmVars, apiVars>>

\* cleanup_old_files, lines 102-103: file_age = current_time - getctime;
\* file_age > 3600
file_expired(current_time, ctime) == current_time - ctime > APP_MAX_AGE

\* the turn of the for loop that visits task t
sweep_visit(t) ==
    [sweep EXCEPT
       !.pos = t,
       !.expired = IF task_expired(sweep.time,
                                   processing_status[t].created_at)
                     THEN sweep.expired \cup {t}
                     ELSE sweep.expired]

\* cleanup_old_files, lines 89-91: one turn of the for loop.  The iterator
\* raises RuntimeError (dictionary changed size during iteration) when the
\* dict has another size than at its creation; the outer except ends this
\* round and the thread sleeps.  On an unchanged dict the next item in
\* insertion order is visited, or the loop ends.  On a dict that was changed
\* and has its old size again (a key deleted, another inserted), the
\* iterator goes on without an error and may fail to iterate over all
\* entries: it yields any of the later items or ends.
sweep_iter ==
    /\ sweep.pc = "iter"
    /\ LET rest == {t \in DOMAIN processing_status : t > sweep.pos}
           t == CHOOSE x \in rest : \A y \in rest : x <= y
       IN  IF Cardinality(DOMAIN processing_status) # sweep.used
             THEN sweep' = SweepAsleep
           ELSE IF DOMAIN processing_status = sweep.keys
             THEN sweep' = IF rest = {} THEN [sweep EXCEPT !.pc = "del"]
                           ELSE sweep_visit(t)
           ELSE \/ sweep' = [sweep EXCEPT !.pc = "del"]
                \/ \E x \in rest : sweep' = sweep_visit(x)
    /\ UNCHANGED <<processing_status, video_file, audio_file, video_ctime,
                   audio_ctime>>
    /\ UNCHANGED sweepRest
    /\ UNCHANGED <<svcVars, fmVars, apiVars>>

\* cleanup_old_files, lines 93-94: del processing_status[task_id] for the
\* next expired id; a key that is gone by now raises KeyError and the outer
\* except ends this round
sweep_del ==
    /\ sweep.pc = "del"
    /\ IF sweep.expired = {}
         THEN /\ sweep' = [sweep EXCEPT !.pc = "files"]
              /\ UNCHANGED processing_status
         ELSE LET t == CHOOSE x \in sweep.expired :
                          \A y \in sweep.expired : x <= y
              IN  IF t \in DOMAIN processing_status
                    THEN /\ processing_status' = Del(processing_status, t)
                         /\ sweep' = [sweep EXCEPT
                                        !.expired = sweep.expired \ {t}]
                    ELSE /\ sweep' = SweepAsleep
                         /\ UNCHANGED processing_status
    /\ UNCHANGED <<video_file, audio_file, video_ctime, audio_ctime>>
    /\ UNCHANGED sweepRest
    /\ UNCHANGED <<svcVars, fmVars, apiVars>>

\* cleanup_old_files, lines 97-107: every file in uploads/ and audio_output/
\* whose ctime is more than 3600 s before current_time is removed; then the
\* thread sleeps
sweep_files ==
    /\ sweep.pc = "files"
    /\ LET oldv == {t \in video_file :
                      file_expired(sweep.time, video_ctime[t])}
           olda == {t \in audio_file :
                      file_expired(sweep.time, audio_ctime[t])}
       IN  /\ video_file' = video_file \ oldv
           /\ audio_file' = audio_file \ olda
           /\ video_ctime' = [t \in AppTaskIds |->
                                IF t \in oldv THEN 0 ELSE video_ctime[t]]
           /\ audio_ctime' = [t \in AppTaskIds |->
                                IF t \in olda THEN 0 ELSE audio_ctime[t]]
    /\ sweep' = SweepAsleep
    /\ UNCHANGED processing_status
    /\ UNCHANGED sweepRest
    /\ UNCHANGED <<svcVars, fmVars, apiVars>>

cleanup_old_files == sweep_begin \/ sweep_iter \/ sweep_del \/ sweep_files

\* The requests and threads of the app within one clock unit: nothing
\* expires, so the cleanup thread has nothing to remove and is left asleep.
AppNext ==
    \/ upload_video
    \/ \E t \in AppTaskIds :
         \/ WorkerBegin(t)
         \/ extract_audio_ffmpeg(t)
         \/ WorkerSetStatus(t)
         \/ WorkerSetResult(t)
         \/ WorkerFinally(t)
         \/ download_check(t)
    \/ \E r \in ReqIds :
         \/ download_send(r)
         \/ stream_finish(r)
         \/ remove_files_check(r)
         \/ remove_files_remove(r)
         \/ remove_files_del(r)

\* what a GET /status request leaves alone
statusRest ==
    <<processing_status, app_next, app_pc, video_file, audio_file, req,
      remover, uploads, video_ctime, audio_ctime, sweep>>

\* get_status, lines 194-195: the membership test; 404 for an unknown id.
\* A new request starts when the previous one has been answered.
status_check(t) ==
    /\ status_req.pc # "checked"
    /\ status_req' =
         [task |-> t,
          pc |-> IF t \in DOMAIN processing_status THEN "checked"
                 ELSE "404",
          status |-> NoneV]
    /\ UNCHANGED statusRest
    /\ UNCHANGED <<svcVars, fmVars, apiVars>>

\* get_status, lines 197-210: processing_status[task_id] is read and the
\* response built from it.  The handler thread holds no lock: when the key
\* has been deleted since the membership test, the subscript raises
\* KeyError and Flask answers 500.
status_read ==
    /\ status_req.pc = "checked"
    /\ status_req' =
         IF status_req.task \in DOMAIN processing_status
           THEN [status_req EXCEPT
                   !.pc = "200",
                   !.status = processing_status[status_req.task].status]
           ELSE [status_req EXCEPT !.pc = "500"]
    /\ UNCHANGED statusRest
    /\ UNCHANGED <<svcVars, fmVars, apiVars>>

\* The app with status queries: uploads, workers, one download request and
\* the removal that follows it, and GET /status requests one after another.
StatusNext ==
    \/ upload_video
    \/ \E t \in AppTaskIds :
         \/ WorkerBegin(t)
         \/ extract_audio_ffmpeg(t)
         \/ WorkerSetStatus(t)
         \/ WorkerSetResult(t)
         \/ WorkerFinally(t)
         \/ req[1].pc = "none" /\ download_check(t)
         \/ status_check(t)
    \/ \E r \in ReqIds :
         \/ download_send(r)
         \/ stream_finish(r)
         \/ remove_files_check(r)
         \/ remove_files_remove(r)
         \/ remove_files_del(r)
    \/ status_read

StatusSpec == Init /\ [][StatusNext]_vars

\* The app over time, with its cleanup thread; one download request.
AppSweepNext ==
    \/ Tick
    \/ upload_video
    \/ \E t \in AppTaskIds :
         \/ WorkerBegin(t)
         \/ extract_audio_ffmpeg(t)
         \/ WorkerSetStatus(t)
         \/ WorkerSetResult(t)
         \/ WorkerFinally(t)
         \/ req[1].pc = "none" /\ download_check(t)
    \/ \E r \in ReqIds :
         \/ download_send(r)
         \/ stream_finish(r)
         \/ remove_files_check(r)
         \/ remove_files_remove(r)
         \/ remove_files_del(r)
    \/ cleanup_old_files

AppSweepSpec == Init /\ [][AppSweepNext]_vars

\* no other worker thread is between its first and its last statement
OneWorker(t) ==
    \A u \in AppTaskIds \ {t} : app_pc[u] \in {"none", "start", "done"}

\* The cleanup thread against a delete and an insert: valid uploads only,
\* the last of them while the cleanup thread iterates over the dict and
\* its worker thread not scheduled yet, the other worker threads one after
\* another, one download request.
SweepRaceNext ==
    \/ Tick
    \/ upload_request({"valid"}, MaxUploads)
    \/ sweep.pc = "iter" /\ upload_request({"valid"}, MaxRaceUploads)
    \/ \E t \in 1..MaxUploads :
         \/ OneWorker(t) /\ WorkerBegin(t)
         \/ extract_audio_ffmpeg(t)
         \/ WorkerSetStatus(t)
         \/ WorkerSetResult(t)
         \/ WorkerFinally(t)
         \/ req[1].pc = "none" /\ download_check(t)
    \/ \E r \in ReqIds :
         \/ download_send(r)
         \/ stream_finish(r)
         \/ remove_files_check(r)
         \/ remove_files_remove(r)
         \/ remove_files_del(r)
    \/ cleanup_old_files

SweepRaceSpec == Init /\ [][SweepRaceNext]_vars

AppSpec == Init /\ [][AppNext]_vars

\* --------------------------------------- storage.py called directly
\* the keyword arguments transcribe_video passes to update_transcription
UpdateKwargs(t) ==
    {[status |-> PROCESSING],
     [status |-> COMPLETED, text |-> "text", completed_at |-> t],
     [status |-> FAILED, error_message |-> "error", completed_at |-> t]}

\* what a direct call of the registry leaves alone
registryRest ==
    <<cleanup_task, ready, pc, model, model_loading, video_tmp, audio_tmp,
      loopVars, hits, posts>>

\* storage.create_transcription()
CallCreate ==
    /\ next_id <= MaxTasks
    /\ LET c == create_transcription(storage, next_id, now)
       IN  /\ storage' = c.storage
           /\ next_id' = c.next_id
           /\ call' = [n |-> 1 - call.n, op |-> "create", id |-> c.id,
                       arg |-> "none", ret |-> TRUE]
    /\ UNCHANGED <<now, registryRest, appVars, fmVars>>

\* storage.update_transcription(id, **kwargs)
CallUpdate(id, kwargs) ==
    /\ storage' = update_transcription(storage, id, kwargs)
    /\ call' = [n |-> 1 - call.n, op |-> "update", id |-> id,
                arg |-> kwargs.status, ret |-> update_transcription_ret(storage, id)]
    /\ UNCHANGED <<next_id, now, registryRest, appVars, fmVars>>

\* storage.get_transcription(id)
CallGet(id) ==
    /\ call' = [n |-> 1 - call.n, op |-> "get", id |-> id,
                arg |-> "none", ret |-> get_transcription(storage, id)]
    /\ UNCHANGED <<storage, next_id, now, registryRest, appVars, fmVars>>

\* storage.delete_transcription(id)
CallDelete(id) ==
    /\ storage' = delete_transcription(storage, id)
    /\ call' = [n |-> 1 - call.n, op |-> "delete", id |-> id,
                arg |-> "none", ret |-> delete_transcription_ret(storage, id)]
    /\ UNCHANGED <<next_id, now, registryRest, appVars, fmVars>>

\* InMemoryStorage under any sequence of calls of its public methods
RegistryNext ==
    \/ Tick
    \/ CallCreate
    \/ \E id \in TaskIds, kwargs \in UpdateKwargs(now) :
         CallUpdate(id, kwargs)
    \/ \E id \in TaskIds : CallGet(id)
    \/ \E id \in TaskIds : CallDelete(id)

RegistrySpec == Init /\ [][RegistryNext]_vars

\* ------------------------------------------------ main.py, POST /transcribe
\* the kinds of files a POST /transcribe request carries
PostKinds == {"no_name", "bad_ext", "empty", "too_large", "valid"}

\* mutant of limit_exceeded: the limiter lets every request through
limit_exceeded_Never(h, c) == FALSE

\* @limiter.limit(f"{settings.RATE_LIMIT_REQUESTS}/minute") keyed by
\* get_remote_address: the client has used up its requests of this window
limit_exceeded(h, c) == h[c] >= RATE_LIMIT_REQUESTS

\* the request slot a new POST /transcribe takes
FreshPost == CHOOSE r \in PostIds : posts[r].pc = "none" /\
                 \A q \in PostIds : q < r => posts[q].pc # "none"

\* A POST /transcribe request arrives.  The limiter's wrapper runs before
\* the handler's body: over the limit the request is answered 429 and the
\* body never runs.  Otherwise the request is counted, validate_file
\* answers 400 for a missing file name or a disallowed extension, and the
\* handler suspends in await file.read().
post_arrive(c, kind) ==
    /\ ~LoopBusy
    /\ \E r \in PostIds : posts[r].pc = "none"
    /\ LET r == FreshPost
       IN  IF limit_exceeded(hits, c)
             THEN /\ posts' = [posts EXCEPT ![r] =
                       [client |-> c, kind |-> kind, pc |-> "429",
                        id |-> 0]]
                  /\ UNCHANGED hits
             ELSE /\ hits' = [hits EXCEPT ![c] = hits[c] + 1]
                  /\ posts' = [posts EXCEPT ![r] =
                       [client |-> c, kind |-> kind,
                        pc |-> IF kind \in {"no_name", "bad_ext"}
                                 THEN "400" ELSE "reading",
                        id |-> 0]]
    /\ UNCHANGED call
    /\ UNCHANGED <<svcVars, appVars, fmVars>>

\* The handler resumes with the file's content: validate_file_size answers
\* 413 for a file over MAX_FILE_SIZE and 400 for an empty file; otherwise
\* create_transcription and asyncio.create_task run with no await between
\* them and the request is answered with the new id.
post_read_done(r) ==
    /\ ~LoopBusy
    /\ posts[r].pc = "reading"
    /\ IF posts[r].kind = "valid"
         THEN /\ next_id <= MaxTasks
              /\ LET c == create_transcription(storage, next_id, now)
                 IN  /\ storage' = c.storage
                     /\ next_id' = c.next_id
                     /\ ready' = Append(ready, c.id)
                     /\ pc' = [pc EXCEPT ![c.id] = "ready"]
                     /\ posts' = [posts EXCEPT ![r].pc = "202",
                                               ![r].id = c.id]
         ELSE /\ posts' = [posts EXCEPT
                             ![r].pc = IF posts[r].kind = "too_large"
                                         THEN "413" ELSE "400"]
              /\ UNCHANGED <<storage, next_id, ready, pc>>
    /\ UNCHANGED <<cleanup_task, now, model, model_loading, video_tmp,
                   audio_tmp>>
    /\ UNCHANGED <<hits, call>>
    /\ UNCHANGED <<appVars, fmVars, loopVars>>

\* the limiter's one-minute window of client c is over
WindowExpires(c) ==
    /\ hits[c] > 0
    /\ hits' = [hits EXCEPT ![c] = 0]
    /\ UNCHANGED <<posts, call>>
    /\ UNCHANGED <<svcVars, appVars, fmVars>>

\* The two submission endpoints, POST /transcribe and POST /upload, on
\* their own: every kind of request, no worker running yet.
IngestNext ==
    \/ \E c \in ApiClients, kind \in PostKinds : post_arrive(c, kind)
    \/ \E r \in PostIds : post_read_done(r)
    \/ \E c \in ApiClients : WindowExpires(c)
    \/ upload_video

IngestSpec == Init /\ [][IngestNext]_vars

\* ------------------------------------------------- file_manager.py, utils.py
\* utils.safe_delete_file(path): removes the file when it exists and returns
\* True; returns False when it does not exist or when os.remove raises
\* (rm_ok is False), and then leaves the disk as it is
safe_delete_file(d, path, rm_ok) ==
    IF path \in d /\ rm_ok
      THEN [disk |-> d \ {path}, ret |-> TRUE]
      ELSE [disk |-> d, ret |-> FALSE]

\* mutant of delete_file: the record is kept when the deletion failed
delete_file_KeepsRecordOnFailure(fm, d, id, rm_ok) ==
    IF id \notin DOMAIN fm
      THEN [file_map |-> fm, disk |-> d, ret |-> FALSE, found |-> FALSE]
      ELSE LET r == safe_delete_file(d, fm[id].path, rm_ok)
           IN  [file_map |-> IF r.ret THEN Del(fm, id) ELSE fm,
                disk |-> r.disk, ret |-> r.ret, found |-> TRUE]

\* mutant of delete_file: the record is kept when the file was removed
delete_file_KeepsRecord(fm, d, id, rm_ok) ==
    IF id \notin DOMAIN fm
      THEN [file_map |-> fm, disk |-> d, ret |-> FALSE, found |-> FALSE]
      ELSE LET r == safe_delete_file(d, fm[id].path, rm_ok)
           IN  [file_map |-> IF r.ret THEN fm ELSE Del(fm, id),
                disk |-> r.disk, ret |-> r.ret, found |-> TRUE]

\* FileManager.delete_file(file_id), the body under the lock: False when
\* the id is unknown; otherwise safe_delete_file, then the record is removed
\* regardless of the deletion's success
delete_file(fm, d, id, rm_ok) ==
    IF id \notin DOMAIN fm
      THEN [file_map |-> fm, disk |-> d, ret |-> FALSE, found |-> FALSE]
      ELSE LET r == safe_delete_file(d, fm[id].path, rm_ok)
           IN  [file_map |-> Del(fm, id), disk |-> r.disk, ret |-> r.ret,
                found |-> TRUE]

\* mutant of get_file_path: a record whose file is missing is kept
get_file_path_KeepsStaleRecord(fm, d, id) ==
    IF id \in DOMAIN fm /\ fm[id].path \in d
      THEN [file_map |-> fm, ret |-> fm[id].path]
      ELSE [file_map |-> fm, ret |-> 0]

\* FileManager.get_file_path(file_id), the body under the lock: the path
\* when the record exists and its file is on disk; a record whose file is
\* missing is removed from the map and None is returned
get_file_path(fm, d, id) ==
    IF id \in DOMAIN fm /\ fm[id].path \in d
      THEN [file_map |-> fm, ret |-> fm[id].path]
      ELSE IF id \in DOMAIN fm
        THEN [file_map |-> Del(fm, id), ret |-> 0]
        ELSE [file_map |-> fm, ret |-> 0]

\* mutant of expired_ids: no record ever counts as expired
expired_ids_Never(fm, current_time) == {}

\* cleanup_expired_files, the scan under the lock: the ids whose age
\* exceeds max_file_age
expired_ids(fm, current_time) ==
    {id \in DOMAIN fm : current_time - fm[id].timestamp > MAX_FILE_AGE}

\* a set of ids as the list the scan builds (dict order: insertion order)
RECURSIVE SetToSeq(_)
SetToSeq(ids) ==
    IF ids = {} THEN <<>>
    ELSE LET m == CHOOSE x \in ids : \A y \in ids : x <= y
         IN  <<m>> \o SetToSeq(ids \ {m})

\* the producer of a file writes it; a path is written once
CreateFile(path) ==
    /\ path \notin written
    /\ disk' = disk \cup {path}
    /\ written' = written \cup {path}
    /\ UNCHANGED <<file_map, fm_next, fm_lock, fm_thr, deleted>>
    /\ UNCHANGED stop_cleanup
    /\ UNCHANGED <<svcVars, appVars, apiVars>>

\* a file is removed from disk behind the FileManager's back
ExternalDelete(path) ==
    /\ path \in disk
    /\ disk' = disk \ {path}
    /\ UNCHANGED <<file_map, fm_next, fm_lock, fm_thr, written, deleted>>
    /\ UNCHANGED stop_cleanup
    /\ UNCHANGED <<svcVars, appVars, apiVars>>

\* a client thread calls register_file(path): generate_unique_id() runs
\* before the lock is taken
CallRegister(i, path) ==
    /\ fm_thr[i].pc = "idle"
    /\ fm_next <= MaxFiles
    /\ fm_thr' = [fm_thr EXCEPT ![i] =
                    [IdleThread EXCEPT !.pc = "acquire", !.op = "register",
                                       !.id = fm_next, !.path = path]]
    /\ fm_next' = fm_next + 1
    /\ UNCHANGED <<file_map, fm_lock, disk, written, deleted>>
    /\ UNCHANGED stop_cleanup
    /\ UNCHANGED <<svcVars, appVars, apiVars>>

\* a client thread calls get_file_path(id) or delete_file(id)
CallById(i, op, id) ==
    /\ fm_thr[i].pc = "idle"
    /\ fm_thr' = [fm_thr EXCEPT ![i] =
                    [IdleThread EXCEPT !.pc = "acquire", !.op = op,
                                       !.id = id]]
    /\ UNCHANGED <<file_map, fm_next, fm_lock, disk, written, deleted>>
    /\ UNCHANGED stop_cleanup
    /\ UNCHANGED <<svcVars, appVars, apiVars>>

\* cleanup_worker: the wait timed out with _stop_cleanup not set;
\* cleanup_expired_files reads time.time() and goes for the lock
CleanupWake ==
    /\ fm_thr[CleanupThread].pc = "idle"
    /\ ~stop_cleanup
    /\ fm_thr' = [fm_thr EXCEPT ![CleanupThread] =
                    [IdleThread EXCEPT !.pc = "acquire", !.op = "scan",
                                       !.time = now]]
    /\ UNCHANGED <<file_map, fm_next, fm_lock, disk, written, deleted>>
    /\ UNCHANGED stop_cleanup
    /\ UNCHANGED <<svcVars, appVars, apiVars>>

\* with self._lock: the thread blocks until the lock is free
Acquire(i) ==
    /\ fm_thr[i].pc = "acquire"
    /\ fm_lock = NoThread
    /\ fm_lock' = i
    /\ fm_thr' = [fm_thr EXCEPT ![i].pc = "locked"]
    /\ UNCHANGED <<file_map, fm_next, disk, written, deleted>>
    /\ UNCHANGED stop_cleanup
    /\ UNCHANGED <<svcVars, appVars, apiVars>>

\* mutant of AfterDelete: the sweep ends after its first deletion
AfterDelete_EndsSweep(i) == [fm_thr EXCEPT ![i] = IdleThread]

\* where a thread goes when its delete_file call returns: back into the
\* loop of cleanup_expired_files or of shutdown, or out of the FileManager
AfterDelete(i) ==
    IF i = CleanupThread \/ fm_thr[i].pending # <<>>
      THEN [fm_thr EXCEPT ![i].pc = "next"]
      ELSE [fm_thr EXCEPT ![i] = IdleThread]

\* register_file under the lock: the record is stored with time.time()
RegisterBody(i) ==
    /\ fm_thr[i].pc = "locked" /\ fm_thr[i].op = "register"
    /\ fm_lock = i
    /\ file_map' = Put(file_map, fm_thr[i].id,
                       [path |-> fm_thr[i].path, timestamp |-> now])
    /\ fm_lock' = NoThread
    /\ fm_thr' = [fm_thr EXCEPT ![i] = IdleThread]
    /\ UNCHANGED <<fm_next, disk, written, deleted>>
    /\ UNCHANGED stop_cleanup
    /\ UNCHANGED <<svcVars, appVars, apiVars>>

\* get_file_path under the lock
GetBody(i) ==
    /\ fm_thr[i].pc = "locked" /\ fm_thr[i].op = "get"
    /\ fm_lock = i
    /\ file_map' = get_file_path(file_map, disk, fm_thr[i].id).file_map
    /\ fm_lock' = NoThread
    /\ fm_thr' = [fm_thr EXCEPT ![i] = IdleThread]
    /\ UNCHANGED <<fm_next, disk, written, deleted>>
    /\ UNCHANGED stop_cleanup
    /\ UNCHANGED <<svcVars, appVars, apiVars>>

\* delete_file under the lock; os.remove succeeds or raises
DeleteBody(i) ==
    /\ fm_thr[i].pc = "locked" /\ fm_thr[i].op = "delete"
    /\ fm_lock = i
    /\ \E rm_ok \in BOOLEAN :
         LET id == fm_thr[i].id
             r == delete_file(file_map, disk, id, rm_ok)
         IN  /\ file_map' = r.file_map
             /\ disk' = r.disk
             /\ deleted' = IF r.found
                             THEN Put(deleted, id,
                                      [path |-> file_map[id].path,
                                       ret |-> r.ret])
                             ELSE deleted
    /\ fm_lock' = NoThread
    /\ fm_thr' = AfterDelete(i)
    /\ UNCHANGED <<fm_next, written>>
    /\ UNCHANGED stop_cleanup
    /\ UNCHANGED <<svcVars, appVars, apiVars>>

\* mutant of after_scan: the deletions run inside the with block
after_scan_KeepsLock(holder) == holder

\* cleanup_expired_files: the with block ends after the scan, before the
\* delete_file calls; the lock is free again
after_scan(holder) == NoThread

\* cleanup_expired_files under the lock: the expired ids are collected
ScanBody ==
    /\ fm_thr[CleanupThread].pc = "locked"
    /\ fm_thr[CleanupThread].op = "scan"
    /\ fm_lock = CleanupThread
    /\ fm_lock' = after_scan(CleanupThread)
    /\ fm_thr' = [fm_thr EXCEPT
                    ![CleanupThread].pc = "next",
                    ![CleanupThread].pending =
                        SetToSeq(expired_ids(file_map,
                                             fm_thr[CleanupThread].time))]
    /\ UNCHANGED <<file_map, fm_next, disk, written, deleted>>
    /\ UNCHANGED stop_cleanup
    /\ UNCHANGED <<svcVars, appVars, apiVars>>

\* cleanup_expired_files outside the lock: for file_id in expired_ids:
\* self.delete_file(file_id); the call returns when the list is done
CleanupNext ==
    /\ fm_thr[CleanupThread].pc = "next"
    /\ fm_thr' =
         IF fm_thr[CleanupThread].pending = <<>>
           THEN [fm_thr EXCEPT ![CleanupThread] = IdleThread]
           ELSE [fm_thr EXCEPT
                   ![CleanupThread].pc = "acquire",
                   ![CleanupThread].op = "delete",
                   ![CleanupThread].id = Head(fm_thr[CleanupThread].pending),
                   ![CleanupThread].pending =
                       Tail(fm_thr[CleanupThread].pending)]
    /\ UNCHANGED <<file_map, fm_next, fm_lock, disk, written, deleted>>
    /\ UNCHANGED stop_cleanup
    /\ UNCHANGED <<svcVars, appVars, apiVars>>

FMNext ==
    \/ Tick
    \/ \E path \in Paths : CreateFile(path) \/ ExternalDelete(path)
    \/ \E i \in Clients, path \in Paths : CallRegister(i, path)
    \/ \E i \in Clients, op \in {"get", "delete"}, id \in FileIds :
         CallById(i, op, id)
    \/ CleanupWake
    \/ \E i \in FMThreads : Acquire(i) \/ RegisterBody(i) \/ GetBody(i)
                              \/ DeleteBody(i)
    \/ ScanBody
    \/ CleanupNext

FMSpec == Init /\ [][FMNext]_vars

\* Time passes; the cleanup thread keeps running: its wait times out again
\* and again and each of its steps is taken; a thread inside the lock
\* finishes its body and releases it.  The cleanup thread, blocked on a
\* lock that is released again and again, gets it at some point.
FMFairSpec ==
    /\ FMSpec
    /\ WF_vars(Tick)
    /\ WF_vars(CleanupWake)
    /\ SF_vars(Acquire(CleanupThread))
    /\ WF_vars(ScanBody)
    /\ WF_vars(CleanupNext)
    /\ \A i \in FMThreads :
         WF_vars(RegisterBody(i) \/ GetBody(i) \/ DeleteBody(i))

\* a client thread calls get_stats()
CallStats(i) ==
    /\ fm_thr[i].pc = "idle"
    /\ fm_thr' = [fm_thr EXCEPT ![i] =
                    [IdleThread EXCEPT !.pc = "acquire", !.op = "stats"]]
    /\ UNCHANGED <<file_map, fm_next, fm_lock, disk, written, deleted,
                   stop_cleanup>>
    /\ UNCHANGED <<svcVars, appVars, apiVars>>

\* get_stats under the lock: the counts are read, nothing is written
StatsBody(i) ==
    /\ fm_thr[i].pc = "locked" /\ fm_thr[i].op = "stats"
    /\ fm_lock = i
    /\ fm_lock' = NoThread
    /\ fm_thr' = [fm_thr EXCEPT ![i] = IdleThread]
    /\ UNCHANGED <<file_map, fm_next, disk, written, deleted, stop_cleanup>>
    /\ UNCHANGED <<svcVars, appVars, apiVars>>

\* a client thread calls shutdown(): _stop_cleanup.set(), then
\* _cleanup_thread.join(timeout=5), which returns when the thread has ended
\* or after five seconds, and the thread goes for the lock
CallShutdown(i) ==
    /\ fm_thr[i].pc = "idle"
    /\ stop_cleanup' = TRUE
    /\ fm_thr' = [fm_thr EXCEPT ![i] =
                    [IdleThread EXCEPT !.pc = "acquire", !.op = "list"]]
    /\ UNCHANGED <<file_map, fm_next, fm_lock, disk, written, deleted>>
    /\ UNCHANGED <<svcVars, appVars, apiVars>>

\* shutdown under the lock: file_ids = list(self._file_map.keys())
ListBody(i) ==
    /\ fm_thr[i].pc = "locked" /\ fm_thr[i].op = "list"
    /\ fm_lock = i
    /\ fm_lock' = NoThread
    /\ fm_thr' =
         IF DOMAIN file_map = {}
           THEN [fm_thr EXCEPT ![i] = IdleThread]
           ELSE [fm_thr EXCEPT ![i].pc = "next",
                               ![i].pending = SetToSeq(DOMAIN file_map)]
    /\ UNCHANGED <<file_map, fm_next, disk, written, deleted, stop_cleanup>>
    /\ UNCHANGED <<svcVars, appVars, apiVars>>

\* shutdown outside the lock: for file_id in file_ids:
\* self.delete_file(file_id)
ShutdownNext(i) ==
    /\ fm_thr[i].pc = "next"
    /\ fm_thr[i].pending # <<>>
    /\ fm_thr' = [fm_thr EXCEPT
                    ![i].pc = "acquire",
                    ![i].op = "delete",
                    ![i].id = Head(fm_thr[i].pending),
                    ![i].pending = Tail(fm_thr[i].pending)]
    /\ UNCHANGED <<file_map, fm_next, fm_lock, disk, written, deleted,
                   stop_cleanup>>
    /\ UNCHANGED <<svcVars, appVars, apiVars>>

\* cleanup_worker: _stop_cleanup.wait returns True and the loop ends
CleanupExit ==
    /\ fm_thr[CleanupThread].pc = "idle"
    /\ stop_cleanup
    /\ fm_thr' = [fm_thr EXCEPT ![CleanupThread].pc = "exited"]
    /\ UNCHANGED <<file_map, fm_next, fm_lock, disk, written, deleted,
                   stop_cleanup>>
    /\ UNCHANGED <<svcVars, appVars, apiVars>>

\* one step of thread i inside the FileManager
ThreadStep(i) ==
    \/ RegisterBody(i) \/ GetBody(i) \/ DeleteBody(i)
    \/ i \in Clients /\ (StatsBody(i) \/ ListBody(i) \/ ShutdownNext(i))
    \/ i = CleanupThread /\ (ScanBody \/ CleanupNext \/ CleanupExit)

\* The FileManager's locking: every public method called from a client
\* thread, next to the cleanup thread, until and after shutdown.
FMLockNext ==
    \/ Tick
    \/ \E i \in Clients : CallRegister(i, 1)
    \/ \E i \in Clients, op \in {"get", "delete"}, id \in FileIds :
         CallById(i, op, id)
    \/ \E i \in Clients : CallStats(i) \/ CallShutdown(i)
    \/ CleanupWake
    \/ \E i \in FMThreads : Acquire(i) \/ ThreadStep(i)

FMLockSpec == Init /\ [][FMLockNext]_vars

\* Every thread keeps running: a thread that is inside a call takes its
\* next step, and a thread blocked on a lock that is released again and
\* again gets it at some point.
FMLockFairSpec ==
    /\ FMLockSpec
    /\ \A i \in FMThreads : SF_vars(Acquire(i)) /\ WF_vars(ThreadStep(i))

\* what a direct call of the FileManager leaves alone
fileManagerRest == <<fm_lock, fm_thr, written, stop_cleanup, hits, posts>>

\* file_manager.register_file(path) from a single-threaded caller
CallRegisterFile(path) ==
    /\ \A i \in FMThreads : fm_thr[i].pc = "idle"
    /\ fm_next <= MaxFiles
    /\ file_map' = Put(file_map, fm_next,
                       [path |-> path, timestamp |-> now])
    /\ fm_next' = fm_next + 1
    /\ call' = [n |-> 1 - call.n, op |-> "register_file", id |-> fm_next,
                arg |-> "none", ret |-> TRUE]
    /\ UNCHANGED <<disk, deleted, fileManagerRest, svcVars, appVars>>

\* file_manager.delete_file(id) from a single-threaded caller; os.remove
\* succeeds or raises
CallDeleteFile(id) ==
    /\ \A i \in FMThreads : fm_thr[i].pc = "idle"
    /\ \E rm_ok \in BOOLEAN :
         LET r == delete_file(file_map, disk, id, rm_ok)
         IN  /\ file_map' = r.file_map
             /\ disk' = r.disk
             /\ deleted' = IF r.found
                             THEN Put(deleted, id,
                                      [path |-> file_map[id].path,
                                       ret |-> r.ret])
                             ELSE deleted
             /\ call' = [n |-> 1 - call.n, op |-> "delete_file",
                         id |-> id, arg |-> "none", ret |-> r.ret]
    /\ UNCHANGED <<fm_next, fileManagerRest, svcVars, appVars>>

\* The two stores under direct calls: records are created, updated and
\* deleted in the registry; files are written, registered and deleted in
\* the FileManager.
DeleteNext ==
    \/ CallCreate
    \/ \E id \in TaskIds, kwargs \in UpdateKwargs(now) :
         CallUpdate(id, kwargs)
    \/ \E id \in TaskIds : CallDelete(id)
    \/ \E path \in Paths : CreateFile(path) \/ ExternalDelete(path)
    \/ \E path \in Paths : CallRegisterFile(path)
    \/ \E id \in FileIds : CallDeleteFile(id)

DeleteSpec == Init /\ [][DeleteNext]_vars

\* for file_id in expired_ids: self.delete_file(file_id), with no other
\* thread in between; ok[id] tells whether os.remove succeeds for id
RECURSIVE DeleteEach(_, _, _, _)
DeleteEach(fm, d, ids, ok) ==
    IF ids = <<>> THEN [file_map |-> fm, disk |-> d]
    ELSE LET r == delete_file(fm, d, Head(ids), ok[Head(ids)])
         IN  DeleteEach(r.file_map, r.disk, Tail(ids), ok)

\* FileManager.cleanup_expired_files() as one sequential call at
\* current_time: the scan, the deletions, return len(expired_ids)
cleanup_expired_files(fm, d, current_time, ok) ==
    LET ids == SetToSeq(expired_ids(fm, current_time))
        r == DeleteEach(fm, d, ids, ok)
    IN  [file_map |-> r.file_map, disk |-> r.disk, ret |-> Len(ids)]

\* The two expiry mechanisms side by side: submissions and the storage's
\* cleanup loop, one client registering files and the FileManager's cleanup
\* thread, under one clock.
ExpireNext ==
    \/ Tick
    \/ Submit
    \/ StartCleanupTask
    \/ CleanupSweep
    \/ \E path \in Paths : CreateFile(path) \/ ExternalDelete(path)
    \/ \E path \in Paths : CallRegister(1, path)
    \/ Acquire(1) \/ RegisterBody(1)
    \/ CleanupWake
    \/ Acquire(CleanupThread)
    \/ ScanBody
    \/ CleanupNext
    \/ DeleteBody(CleanupThread)

ExpireSpec == Init /\ [][ExpireNext]_vars

\* ----------------------------------------------------------------- claims
Terminal == {COMPLETED, FAILED}

\* the status a poller reads for id t
StatusOf(s, t) == IF t \in DOMAIN s THEN s[t].status ELSE "not_found"

\* ids whose record has status st
InStatus(st) == {t \in DOMAIN storage : storage[t].status = st}

\* ids whose transcribe_video coroutine has started and not returned
RunningWorkers ==
    {t \in TaskIds :
        pc[t] \in {"loading", "load_wait", "extracting", "transcribing",
                   "finally_ok", "finally_exc", "hung"}}

LegalEdges ==
    {<<PENDING, PROCESSING>>, <<PROCESSING, COMPLETED>>,
     <<PROCESSING, FAILED>>}

\* C1: every change of a task's status is one of PENDING->PROCESSING,
\* PROCESSING->COMPLETED, PROCESSING->FAILED, also when the transform or the
\* temporary-file cleanup after it raises.
C1_OnlyLegalEdges ==
    [][\A t \in DOMAIN storage \cap DOMAIN storage' :
         storage[t].status # storage'[t].status
           => <<storage[t].status, storage'[t].status>> \in LegalEdges]_vars

\* C2: once a task's status is COMPLETED or FAILED it never changes again
\* while the record exists.
C2_TerminalIsStable ==
    [][\A t \in DOMAIN storage \cap DOMAIN storage' :
         storage[t].status \in Terminal
           => storage'[t].status = storage[t].status]_vars

\* C4: a COMPLETED task has a result text and no error_message, a FAILED
\* task has an error_message and no result text.
C4_ExactlyOneOfResultOrError ==
    \A t \in DOMAIN storage :
        /\ storage[t].status = COMPLETED
             => storage[t].text # NoneV /\ storage[t].error_message = NoneV
        /\ storage[t].status = FAILED
             => storage[t].error_message # NoneV /\ storage[t].text = NoneV

C10_ProcessingEventuallyTerminal ==
    \A t \in TaskIds :
        [](StatusOf(storage, t) = PROCESSING
             => <>(\/ StatusOf(storage, t) \in Terminal
                   \/ StatusOf(storage, t) = "not_found" /\ pc[t] = "done"))

\* download requests for task t that were answered with the file
Served(t) ==
    {r \in ReqIds : req[r].task = t /\ req[r].pc \in {"streaming", "sent"}}

\* C3: a download request that reads status COMPLETED reads the result
\* (audio_path) on the same record.
C3_NoTornRead ==
    \A r \in ReqIds : req[r].saw_status = COMPLETED => req[r].saw_audio

\* C7: for every task id at most one download request succeeds, and every
\* download request issued after a successful one is answered 404.
C7_AtMostOneDownload ==
    /\ \A t \in AppTaskIds : Cardinality(Served(t)) <= 1
    /\ \A r \in ReqIds :
          req[r].after_served /\ req[r].pc # "checked"
            => req[r].pc \in {"404_task_not_found", "404_audio_not_found"}

\* C8: the audio file exists for as long as it is being streamed to a
\* caller.
C8_NotDeletedWhileStreaming ==
    \A r \in ReqIds : req[r].pc = "streaming" => req[r].task \in audio_file

\* C9 (as claimed): a record and its file are removed together; once
\* delete_file has removed a record, its file is not on disk, also when the
\* removal of the file failed.
C9_RecordAndFileTogether ==
    \A id \in DOMAIN deleted :
        id \notin DOMAIN file_map /\ deleted[id].path \notin disk

\* C9 (amended): delete_file always removes the record; the file is gone
\* with it whenever delete_file returns True, and is left on disk without
\* a record only when its removal failed (delete_file returned False); the
\* store never removes a file and keeps the record it was deleted through.
C9_RecordAlwaysFileUnlessFailed ==
    \A id \in DOMAIN deleted :
        /\ id \notin DOMAIN file_map
        /\ deleted[id].ret => deleted[id].path \notin disk

\* C9 witness: delete_file has run with a failing file removal: the record
\* is gone and the file is still on disk.
C9_Witness ==
    \E id \in DOMAIN deleted :
        /\ ~deleted[id].ret
        /\ deleted[id].path \in disk
        /\ id \notin DOMAIN file_map
\* C11: a transform that runs past its time budget ends FAILED with an error
\* that identifies a timeout.
C11_TimeoutEndsFailedAsTimeout ==
    \A t \in TaskIds :
        [](pc[t] = "hung" /\ t \in DOMAIN storage
             => <>(/\ StatusOf(storage, t) = FAILED
                   /\ storage[t].error_message = "timeout"))

\* C14: when a worker run has ended, neither the temporary video file nor
\* the temporary audio file of its task is left on disk.
C14_NoIntermediateFileLeft ==
    \A t \in TaskIds :
        pc[t] = "done" => t \notin video_tmp /\ t \notin audio_tmp

\* C18: the id create_transcription returns was never returned before (no
\* coroutine was ever created for it, no record has it), also after earlier
\* records were removed, and the record inserted under it is PENDING.
C18_FreshPendingId ==
    [][\A id \in TaskIds :
          Len(ready') = Len(ready) + 1 /\ ready'[Len(ready')] = id
            => /\ pc[id] = "none"
               /\ id \notin DOMAIN storage
               /\ id \in DOMAIN storage'
               /\ storage'[id].status = PENDING
               /\ \A o \in DOMAIN storage :
                     o \in DOMAIN storage' /\ storage'[o] = storage[o]]_vars

\* C18 witness: id 2 has just been handed out (its record is PENDING, its
\* coroutine not started) after the record of id 1 was removed by a sweep.
C18_Witness ==
    /\ 1 \notin DOMAIN storage
    /\ pc[1] # "none"
    /\ 2 \in DOMAIN storage
    /\ storage[2].status = PENDING
    /\ pc[2] = "ready"

\* C20: a worker that starts on a task whose record is missing, or is not
\* PENDING, drops the work item: the transform is not invoked and the
\* registry is left unchanged.
C20_MissingRecordDropsWork ==
    [][\A t \in TaskIds :
          /\ pc[t] = "ready" /\ pc'[t] # "ready"
          /\ StatusOf(storage, t) # PENDING
          => pc'[t] = "done" /\ storage' = storage]_vars
\* C12: when a round of the cleanup sweep has ended, no task that was older
\* than the retention window at the time the round ran is left in
\* processing_status, so a status query after the sweep returns NotFound
\* for it, whatever its status.
C12_OldTasksGoneAfterSweep ==
    [][sweep.pc # "sleeping" /\ sweep'.pc = "sleeping"
         => \A t \in DOMAIN processing_status' :
               ~task_expired(sweep.time,
                             processing_status'[t].created_at)]_vars

C17_NotReadyIsNotNotFound ==
    [][\A r \in ReqIds :
          req[r].pc = "none" /\ req'[r].pc # "none"
            => LET t == req'[r].task
               IN  /\ t \in DOMAIN processing_status
                        /\ processing_status[t].status
                             \in {QUEUED, PROCESSING}
                        => req'[r].pc = "400_not_ready"
                   /\ t \notin DOMAIN processing_status
                        => req'[r].pc = "404_task_not_found"
                   /\ UNCHANGED <<processing_status, video_file,
                                  audio_file>>]_vars

\* C17 witness: a download request for a task that is being processed was
\* answered "not ready", and one for an unknown id was answered NotFound.
C17_Witness ==
    /\ \E r \in ReqIds :
          req[r].pc = "400_not_ready" /\ req[r].saw_status = PROCESSING
    /\ \E r \in ReqIds : req[r].pc = "404_task_not_found"
\* C15: a submission that arrives when its client has used up the rate
\* limit of the window is rejected (429), and the rejected request creates
\* no record, consumes no id and starts no background work.
C15_RateLimitedCreatesNothing ==
    [][\A r \in PostIds :
          posts[r].pc = "none" /\ posts'[r].pc # "none"
            => /\ hits[posts'[r].client] >= RATE_LIMIT_REQUESTS
                    => posts'[r].pc = "429"
               /\ posts'[r].pc = "429"
                    => UNCHANGED <<storage, next_id, ready, pc>>]_vars

\* C15 witness: the first submission of a client was accepted and created
\* task 1, its second submission in the same window was rejected, and no
\* second record exists.
C15_Witness ==
    /\ posts[1].pc = "202" /\ posts[1].id = 1
    /\ posts[2].pc = "429" /\ posts[2].client = posts[1].client
    /\ posts[2].kind = "valid"
    /\ DOMAIN storage = {1} /\ next_id = 2 /\ pc[2] = "none"

C19_ExpiryIdempotent ==
    /\ LET once == cleanup_old_transcriptions(storage, now)
       IN  /\ to_delete(once, now) = {}
           /\ cleanup_old_transcriptions(once, now) = once
    /\ \A ok1, ok2 \in [FileIds -> BOOLEAN] :
         LET r1 == cleanup_expired_files(file_map, disk, now, ok1)
             r2 == cleanup_expired_files(r1.file_map, r1.disk, now, ok2)
         IN  /\ r2.ret = 0
             /\ r2.file_map = r1.file_map
             /\ r2.disk = r1.disk

\* C19 witness: the first run has work to do in both stores and leaves
\* something behind: an old and a young task record, an expired file record
\* whose file is on disk and a file record that is not expired.
C19_Witness ==
    /\ to_delete(storage, now) # {}
    /\ DOMAIN storage \ to_delete(storage, now) # {}
    /\ \E id \in expired_ids(file_map, now) : file_map[id].path \in disk
    /\ DOMAIN file_map \ expired_ids(file_map, now) # {}
\* the elements of a queue
Range(q) == {q[i] : i \in DOMAIN q}

\* how far the transcribe_video coroutine of a task has come
Progress(p) ==
    CASE p = "none" -> 0
      [] p = "ready" -> 1
      [] p \in {"loading", "load_wait"} -> 2
      [] p = "extracting" -> 3
      [] p = "transcribing" -> 4
      [] p \in {"finally_ok", "finally_exc"} -> 5
      [] p \in {"done", "hung"} -> 6

\* C21: the transform runs at most once per task id: a worker only moves
\* forward, so it enters the extraction and the transcription at most once,
\* and a task whose record is FAILED has a worker that has returned and
\* stays where it is; the record stays FAILED until the retention sweep
\* removes it.
C21_TransformAtMostOnce ==
    [][\A t \in TaskIds :
         /\ pc'[t] # pc[t] => Progress(pc'[t]) > Progress(pc[t])
         /\ StatusOf(storage, t) = FAILED
              => /\ pc[t] = "done" /\ pc'[t] = "done"
                 /\ t \notin Range(ready')
                 /\ StatusOf(storage', t) \in {FAILED, "not_found"}
                 /\ StatusOf(storage', t) = "not_found"
                      => t \in to_delete(storage, now)]_vars

\* C21 witness: a task failed in its transcription at an earlier time, its
\* record is still FAILED, and a later task has been started since.
C21_Witness ==
    /\ StatusOf(storage, 1) = FAILED
    /\ storage[1].completed_at < now
    /\ pc[1] = "done"
    /\ audio_tmp = {}
    /\ pc[2] \in {"extracting", "transcribing"}
\* the steps in which the transform of task t fails: whisper.load_model
\* raises, the extraction raises or leaves no output, or the transcription
\* raises and the except branch has run
TransformFails(t) ==
    /\ pc[t] \in {"loading", "extracting", "finally_exc"}
    /\ pc'[t] = "done"

\* C22: when the transform of task A fails, the exception is caught inside
\* the worker, which returns; A's record, if the registry still holds it,
\* becomes FAILED with an error message; the set of records and the record
\* of every other task stay as they were.
C22_FailureOnlyOnOwnRecord ==
    [][\A a \in TaskIds :
         TransformFails(a)
           => /\ DOMAIN storage' = DOMAIN storage
              /\ a \in DOMAIN storage
                   => /\ storage'[a].status = FAILED
                      /\ storage'[a].error_message # NoneV
              /\ \A b \in DOMAIN storage \ {a} : storage'[b] = storage[b]
              /\ \A b \in TaskIds \ {a} : pc'[b] = pc[b]
              /\ ready' = ready]_vars

\* C22 witness: task 2 failed in its transform while task 1 was being
\* processed: task 2 is FAILED with a message, task 1 is still PROCESSING
\* with its worker in the transcription.
C22_Witness ==
    /\ StatusOf(storage, 2) = FAILED
    /\ storage[2].error_message # NoneV
    /\ pc[2] = "done"
    /\ StatusOf(storage, 1) = PROCESSING
    /\ storage[1].error_message = NoneV
    /\ pc[1] = "transcribing"
\* C23: a deletion that fails during a sweep stops neither the sweep nor
\* the loop.  When delete_file returns inside cleanup_expired_files, with
\* the file removed or not, the record is gone and the sweep goes on with
\* the ids it has left; when the sweep returns to its wait, no record that
\* was expired at the sweep's time is left; a sweep of the registry leaves
\* no record that is old at that time and leaves the cleanup task running.
C23_SweepSurvivesFailedDeletion ==
    [][/\ fm_thr[CleanupThread].pc = "locked"
             /\ fm_thr[CleanupThread].op = "delete"
             /\ fm_thr'[CleanupThread] # fm_thr[CleanupThread]
            => /\ fm_thr'[CleanupThread].pc = "next"
               /\ fm_thr'[CleanupThread].pending
                    = fm_thr[CleanupThread].pending
               /\ fm_thr[CleanupThread].id \notin DOMAIN file_map'
       /\ fm_thr[CleanupThread].pc # "idle"
             /\ fm_thr'[CleanupThread].pc = "idle"
            => expired_ids(file_map', fm_thr[CleanupThread].time) = {}
       /\ DOMAIN storage' # DOMAIN storage
             /\ DOMAIN storage' \subseteq DOMAIN storage
            => /\ to_delete(storage', now) = {}
               /\ cleanup_task /\ cleanup_task']_vars

\* C23 witness: in one sweep the removal of file 1 failed (its record is
\* gone, its file is still on disk) and the sweep has gone on to delete
\* file 2; the registry's sweep has removed task 1 and its loop still runs.
C23_Witness ==
    /\ 1 \in DOMAIN deleted /\ ~deleted[1].ret /\ deleted[1].path \in disk
    /\ fm_thr[CleanupThread].pc = "acquire"
    /\ fm_thr[CleanupThread].op = "delete"
    /\ fm_thr[CleanupThread].id = 2
    /\ 2 \in DOMAIN file_map /\ 1 \notin DOMAIN file_map
    /\ pc[1] = "ready" /\ 1 \notin DOMAIN storage
    /\ cleanup_task
\* C24: while the cleanup thread keeps running, every record in the file
\* map is eventually removed: by a delete_file call of a client, or by the
\* cleanup thread once the record is older than max_file_age (stated for the
\* records whose age exceeds max_file_age before the clock's bound).
C24_RecordEventuallyRemoved ==
    \A id \in FileIds :
        [](id \in DOMAIN file_map
             /\ file_map[id].timestamp + MAX_FILE_AGE < MaxTime
             => <>(id \notin DOMAIN file_map))

\* C24 witness: the cleanup thread is inside delete_file, holding the lock,
\* for a record that is still in the map and older than max_file_age, while
\* a younger record is in the map as well.
C24_Witness ==
    /\ fm_thr[CleanupThread].pc = "locked"
    /\ fm_thr[CleanupThread].op = "delete"
    /\ fm_lock = CleanupThread
    /\ LET id == fm_thr[CleanupThread].id
       IN  /\ id \in DOMAIN file_map
           /\ now - file_map[id].timestamp > MAX_FILE_AGE
           /\ \E other \in DOMAIN file_map \ {id} :
                now - file_map[other].timestamp <= MAX_FILE_AGE
\* C25: update_transcription(id, status=PROCESSING) on a record whose
\* status is not PENDING returns False and leaves the record as it is.
C25_ProcessingOnlyFromPending ==
    [][\A id \in DOMAIN storage :
         /\ call'.n # call.n /\ call'.op = "update" /\ call'.id = id
         /\ call'.arg = PROCESSING
         /\ storage[id].status # PENDING
         => /\ call'.ret = FALSE
            /\ storage' = storage]_vars
\* C26: get_file_path(id) returns the path exactly when the record exists
\* and its file is on disk, and then changes nothing; when the record
\* exists and the file is missing it removes the record and returns None,
\* after which get_file_path and delete_file find no record for id,
\* whatever is on disk; the records of other ids stay as they are.
C26_GetFilePath ==
    [][\A i \in Clients :
         fm_thr[i].pc = "locked" /\ fm_thr[i].op = "get"
           /\ fm_thr'[i].pc = "idle"
         => LET id == fm_thr[i].id
                r == get_file_path(file_map, disk, id)
                live == id \in DOMAIN file_map
            IN  /\ file_map' = r.file_map /\ disk' = disk
                /\ r.ret # 0 <=> live /\ file_map[id].path \in disk
                /\ r.ret # 0 => r.ret = file_map[id].path
                                  /\ file_map' = file_map
                /\ live /\ file_map[id].path \notin disk
                     => /\ id \notin DOMAIN file_map'
                        /\ \A d \in SUBSET Paths :
                             /\ get_file_path(file_map', d, id).ret = 0
                             /\ get_file_path(file_map', d, id).file_map
                                  = file_map'
                             /\ \A ok \in BOOLEAN :
                                  ~delete_file(file_map', d, id, ok).found
                /\ ~live => file_map' = file_map
                /\ \A o \in DOMAIN file_map \ {id} :
                     o \in DOMAIN file_map' /\ file_map'[o] = file_map[o]]_vars

\* C26 witness: the record of file 1 was registered and has left the map
\* without any delete_file call (get_file_path found its file missing and
\* removed it), while the record of file 2 is still in the map.
C26_Witness ==
    /\ \A i \in FMThreads : fm_thr[i].pc = "idle"
    /\ fm_next > 2
    /\ 1 \notin DOMAIN file_map /\ 1 \notin DOMAIN deleted
    /\ 2 \in DOMAIN file_map
\* C27: after a cleanup_expired_files call with no other call in progress,
\* every record whose age exceeded max_file_age at the call is gone and so
\* is its file, and every other record is still there, unchanged, with its
\* file if it had one.
C27_SweepRemovesExactlyExpired ==
    (\A i \in FMThreads : fm_thr[i].pc = "idle") /\ fm_lock = NoThread
      => \A ok \in [FileIds -> BOOLEAN] :
           LET r == cleanup_expired_files(file_map, disk, now, ok)
           IN  \A id \in DOMAIN file_map :
                 IF now - file_map[id].timestamp > MAX_FILE_AGE
                   THEN /\ id \notin DOMAIN r.file_map
                        /\ file_map[id].path \notin r.disk
                   ELSE /\ id \in DOMAIN r.file_map
                        /\ r.file_map[id] = file_map[id]
                        /\ file_map[id].path \in disk
                             => file_map[id].path \in r.disk

\* C28: no two records of the file map refer to the same path.
C28_NoSharedPath ==
    \A a, b \in DOMAIN file_map :
        a # b => file_map[a].path # file_map[b].path
\* C29: deletion is idempotent.  delete_transcription(id) removes the
\* record of id whatever its status and returns whether there was one;
\* delete_file(id) removes the record of id whether or not the file could
\* be removed; a second call for the same id right after the first returns
\* False and changes nothing; the records of all other ids stay as they
\* are.
C29_DeleteIdempotent ==
    [][/\ call'.n # call.n /\ call'.op = "delete"
            => /\ call'.id \notin DOMAIN storage'
               /\ call'.ret = (call'.id \in DOMAIN storage)
               /\ \A o \in DOMAIN storage \ {call'.id} :
                    o \in DOMAIN storage' /\ storage'[o] = storage[o]
               /\ call.op = "delete" /\ call.id = call'.id
                    => ~call'.ret /\ storage' = storage
       /\ call'.n # call.n /\ call'.op = "delete_file"
            => /\ call'.id \notin DOMAIN file_map'
               /\ \A o \in DOMAIN file_map \ {call'.id} :
                    o \in DOMAIN file_map' /\ file_map'[o] = file_map[o]
               /\ call.op = "delete_file" /\ call.id = call'.id
                    => /\ ~call'.ret
                       /\ file_map' = file_map /\ disk' = disk]_vars

\* C29 witness: delete_file was called again for a file it had removed
\* and returned False; the other file's record is still in the map; in the
\* registry task 1 was deleted and task 2, COMPLETED, is still there.
C29_Witness ==
    /\ call.op = "delete_file" /\ ~call.ret
    /\ call.id \in DOMAIN deleted /\ deleted[call.id].ret
    /\ DOMAIN file_map # {}
    /\ next_id > 2 /\ 1 \notin DOMAIN storage
    /\ StatusOf(storage, 2) = COMPLETED
\* C30: a status query is read-only and exact: GET /status/<id> leaves
\* processing_status as it is, answers with the task when the id is in
\* processing_status and answers NotFound exactly when it is not.
C30_StatusQueryReadOnly ==
    [][status_req' # status_req
         => /\ processing_status' = processing_status
            /\ status_req'.pc \in {"200", "404", "500"}
                 => /\ status_req'.pc = "404"
                         <=> status_req'.task \notin DOMAIN processing_status
                    /\ status_req'.pc = "200"
                         <=> status_req'.task \in DOMAIN processing_status]_vars
\* C31: for every record in storage, completed_at is set exactly when the
\* status is COMPLETED or FAILED, and error_message is set only when the
\* status is FAILED.
C31_TerminalFieldsMatchStatus ==
    \A t \in DOMAIN storage :
        /\ storage[t].completed_at # NoTime
             <=> storage[t].status \in {COMPLETED, FAILED}
        /\ storage[t].error_message # NoneV => storage[t].status = FAILED

\* C31 witness: one task COMPLETED and one FAILED, both with completed_at,
\* the failed one alone with an error message.
C31_Witness ==
    /\ StatusOf(storage, 1) = COMPLETED
    /\ storage[1].completed_at # NoTime /\ storage[1].error_message = NoneV
    /\ StatusOf(storage, 2) = FAILED
    /\ storage[2].completed_at # NoTime /\ storage[2].error_message # NoneV
\* C32: once the cleanup sweep has deleted the record of a task, no step of
\* its worker brings it back: update_transcription on the absent id returns
\* False and the storage stays as it is, so a status query keeps finding
\* nothing.
C32_DeletedRecordStaysDeleted ==
    [][\A t \in TaskIds :
         t < next_id /\ t \notin DOMAIN storage
           => /\ t \notin DOMAIN storage'
              /\ ~update_transcription_ret(storage, t)
              /\ ~get_transcription(storage', t).found
              /\ pc'[t] # pc[t] => storage' = storage]_vars

\* C32 witness: the record of task 1 is gone, removed by the sweep; the
\* worker of task 1 has just made its success update, and the record is
\* still absent.
C32_Witness ==
    /\ next_id > 1 /\ 1 \notin DOMAIN storage
    /\ pc[1] = "finally_ok" /\ model
    /\ cleanup_task
\* C33: the FileManager never deadlocks: no thread waits for the lock while
\* holding it, the lock is held exactly by a thread that is inside a with
\* block, and every call that has started returns (the cleanup thread ends
\* its sweep and waits again, or ends after shutdown).
C33_NoDeadlock ==
    /\ [](\A i \in FMThreads :
            /\ fm_thr[i].pc = "acquire" => fm_lock # i
            /\ fm_lock = i <=> fm_thr[i].pc = "locked")
    /\ \A i \in FMThreads :
         [](fm_thr[i].pc # "idle"
              => <>(fm_thr[i].pc \in {"idle", "exited"}))

\* C33 witness: shutdown is in its deletion loop, waiting for the lock,
\* while the cleanup thread holds the lock inside delete_file during a
\* sweep that began before _stop_cleanup was set.
C33_Witness ==
    /\ stop_cleanup
    /\ fm_lock = CleanupThread
    /\ fm_thr[CleanupThread].pc = "locked"
    /\ fm_thr[CleanupThread].op = "delete"
    /\ \E i \in Clients :
         /\ fm_thr[i].pc = "acquire" /\ fm_thr[i].op = "delete"
         /\ fm_thr[i].pending # <<>>
\* C34: a round of cleanup_old_files that runs while a task older than the
\* retention window is in processing_status is not cut short: it goes
\* through its loops to the sweep of the staging directories, and only
\* from there back to sleep, whatever uploads and removals do to
\* processing_status in the meantime.
C34_SweepRoundRunsToEnd ==
    [][/\ sweep.pc \in {"iter", "del"}
       /\ \E t \in DOMAIN processing_status :
            task_expired(sweep.time, processing_status[t].created_at)
       => sweep'.pc # "sleeping"]_vars
\* C35: the sweep of the staging directories never removes the audio file
\* of a task that is still in processing_status when that sweep finishes.
C35_SweepKeepsAudioOfLiveTasks ==
    [][sweep.pc = "files" /\ sweep'.pc = "sleeping"
         => \A t \in audio_file \ audio_file' :
               t \notin DOMAIN processing_status']_vars
\* The storage with its cleanup loop under calls of start_cleanup_task and
\* stop_cleanup_task one after another; records are created and time passes
CleanupTaskNext ==
    \/ CallStartCleanup
    \/ CallStopCleanup
    \/ LoopCancelled
    \/ StopResume
    \/ CleanupSweep
    \/ Tick
    \/ Submit

CleanupTaskSpec == Init /\ [][CleanupTaskNext]_vars

\* ------------------------------------------------------ audio_processor.py
\* what ffmpeg.run can do: write the output and succeed, succeed without an
\* output file, fail and leave a partial output file, fail and write nothing
FfmpegOutcomes == {"ok", "ok_no_output", "fail_partial", "fail_clean"}

\* AudioProcessor._run_ffmpeg_extraction: ffmpeg.Error and every other
\* Exception are caught and returned as (False, error_msg)
run_ffmpeg_extraction(d, audio_path, ff) ==
    [success |-> ff \in {"ok", "ok_no_output"},
     disk |-> CASE ff \in {"ok", "fail_partial"} -> d \cup {audio_path}
              []   ff = "ok_no_output" -> d \ {audio_path}
              []   ff = "fail_clean" -> d]

\* AudioProcessor.extract_audio(video_path, delete_video): the disk it
\* leaves and the pair it returns.  audio_path is the path that
\* _generate_audio_path draws, ff what ffmpeg does, exc whether a statement
\* of the try body after the extraction raises, rm_a and rm_v
\* whether os.remove of the audio and of the video file works.
extract_audio(d, video_path, audio_path, delete_video, ff, exc, rm_a, rm_v) ==
    IF video_path \notin d
      THEN [disk |-> d, audio_path |-> NoPath, error |-> "not_found",
            generated |-> NoPath]
    ELSE
      LET r == run_ffmpeg_extraction(d, audio_path, ff)
          da == safe_delete_file(r.disk, audio_path, rm_a).disk
      IN  IF ~r.success
            THEN [disk |-> da, audio_path |-> NoPath, error |-> "ffmpeg",
                  generated |-> audio_path]
          ELSE IF audio_path \notin r.disk
            THEN [disk |-> r.disk, audio_path |-> NoPath,
                  error |-> "no_output", generated |-> audio_path]
          ELSE IF exc
            THEN [disk |-> IF delete_video
                             THEN safe_delete_file(da, video_path,
                                                   rm_v).disk
                             ELSE da,
                  audio_path |-> NoPath, error |-> "exception",
                  generated |-> audio_path]
          ELSE [disk |-> IF delete_video
                           THEN safe_delete_file(r.disk, video_path,
                                                 rm_v).disk
                           ELSE r.disk,
                audio_path |-> audio_path, error |-> NoneV,
                generated |-> audio_path]

\* what a call of extract_audio leaves alone
extractRest ==
    <<file_map, fm_next, fm_lock, fm_thr, written, deleted, stop_cleanup,
      hits, posts>>

\* a file is saved under a path
SaveFile(path) ==
    /\ path \notin disk
    /\ disk' = disk \cup {path}
    /\ UNCHANGED call
    /\ UNCHANGED extractRest
    /\ UNCHANGED <<svcVars, appVars>>

\* audio_processor.extract_audio(video_path, delete_video); the generated
\* audio path is another path than the video's
CallExtractAudio(video_path, delete_video) ==
    \E audio_path \in Paths \ {video_path}, ff \in FfmpegOutcomes,
       exc \in BOOLEAN, rm_audio_ok \in BOOLEAN, rm_video_ok \in BOOLEAN :
         LET r == extract_audio(disk, video_path, audio_path, delete_video,
                                ff, exc, rm_audio_ok, rm_video_ok)
         IN  /\ disk' = r.disk
             /\ call' = [n |-> 1 - call.n, op |-> "extract_audio",
                         id |-> video_path,
                         arg |-> [delete_video |-> delete_video,
                                  video_existed |-> video_path \in disk],
                         ret |-> [audio_path |-> r.audio_path,
                                  error |-> r.error,
                                  generated |-> r.generated]]
             /\ UNCHANGED extractRest
             /\ UNCHANGED <<svcVars, appVars>>

\* The AudioProcessor called again and again on the files of a directory
ExtractNext ==
    \/ \E path \in Paths : SaveFile(path)
    \/ \E video_path \in Paths, delete_video \in BOOLEAN :
         CallExtractAudio(video_path, delete_video)

ExtractSpec == Init /\ [][ExtractNext]_vars

\* C36: at most one load of the model is in flight, and it is the one the
\* flag _model_loading stands for; once the model is there no load is
\* started; a caller that found a load in flight returns from _load_model
\* only when _model_loading has been reset, also after a load that failed.
C36_SingleModelLoad ==
    /\ [](/\ Cardinality({t \in TaskIds : pc[t] = "loading"}) <= 1
          /\ model_loading <=> \E t \in TaskIds : pc[t] = "loading")
    /\ [][\A t \in TaskIds :
            /\ model /\ pc'[t] = "loading" => pc[t] = "loading"
            /\ pc[t] = "load_wait" /\ pc'[t] # "load_wait"
                 => ~model_loading /\ ~model_loading']_vars

\* the load started by task 1 failed and task 2, which waited for it, has
\* returned from _load_model without a model
C36_Witness ==
    /\ ~model
    /\ ~model_loading
    /\ pc[1] = "done"
    /\ 1 \in DOMAIN storage
    /\ storage[1].status = FAILED
    /\ pc[2] \notin {"none", "load_wait", "loading", "done"}
\* C37: after any sequence of start_cleanup_task and stop_cleanup_task calls
\* at most one cleanup loop task exists, and between the calls the handle is
\* set exactly when a loop runs; a start while a loop runs creates no second
\* loop; a stop cancels the loop and leaves the handle None; a stop without
\* a loop changes nothing.
C37_AtMostOneCleanupLoop ==
    /\ [](/\ loop_live <= 1
          /\ stop_pc = "none" => (cleanup_task <=> loop_live = 1))
    /\ [][/\ call' # call /\ call'.op = "start_cleanup_task"
               => /\ loop_live' = 1
                  /\ cleanup_task'
                  /\ call'.ret <=> loop_live = 0
          /\ stop_pc = "awaiting" /\ stop_pc' = "none"
               => ~cleanup_task' /\ loop_live' = 0
          /\ call' # call /\ call'.op = "stop_cleanup_task" /\ ~cleanup_task
               => UNCHANGED <<svcVars, appVars, fmVars>>]_vars

\* a stop has cancelled the loop, the loop has ended and the handle is
\* None again; before that the loop has swept a record away
C37_Witness ==
    /\ call.op = "stop_cleanup_task"
    /\ call.ret
    /\ stop_pc = "none"
    /\ ~cleanup_task
    /\ loop_live = 0
    /\ next_id > 1
    /\ 1 \notin DOMAIN storage
\* C38: extract_audio returns exactly one of (audio_path, None) and
\* (None, error_message); when it returns an audio path the output file
\* exists; when it returns an error no file remains at the generated audio
\* path; with delete_video=False the input video is not deleted.
C38_ExtractAudioResult ==
    call.op = "extract_audio" =>
      /\ call.ret.audio_path # NoPath <=> call.ret.error = NoneV
      /\ call.ret.audio_path # NoPath => call.ret.audio_path \in disk
      /\ call.ret.error # NoneV => call.ret.generated \notin disk
      /\ ~call.arg.delete_video /\ call.arg.video_existed => call.id \in disk
====
